---- MODULE Spec2Model ----
(***************************************************************************)
(* Expense-Tracker: the generic record store BaseOperations               *)
(* (expense_tracker/db/operations.py) over the two declared schemas,       *)
(* expense_tracker/models/*.py (used by the HTTP routes) and               *)
(* expense_tracker/db/models.py (used by the text menu and the unit tests),*)
(* on the engine of db/connection.py (MySQL/InnoDB: NOT NULL and FOREIGN   *)
(* KEY constraints are enforced).                                          *)
(*                                                                         *)
(* A stored row is a function from column names to values; a column that   *)
(* holds SQL NULL is absent from the row's DOMAIN.  Python's None is       *)
(* modelled the same way: a payload is [vals |-> partial function,         *)
(* nulls |-> columns passed as None].                                      *)
(*                                                                         *)
(* Every operation is an operator from the tables and the arguments to     *)
(* the ways the call can end (tables left behind, exception class or       *)
(* returned value).  Spec runs the calls on the tables; SpecHistory runs   *)
(* create, read, update and delete and also records the call just made     *)
(* and the rows the create calls asked for.  SpecBoundary runs the callers  *)
(* of the operations step by step: the HTTP handlers, the menu actions of  *)
(* the CLI and a caller of get_db, each opening and closing its session.   *)
(* SpecConcurrent runs two sessions that update or delete one row, each    *)
(* loading the row in one step and committing in a later one.              *)
(* SpecInput runs the getters of UserInput (expense_tracker/cli.py) on      *)
(* typed lines, a line being a tuple of characters, and on interrupts.     *)
(***************************************************************************)
EXTENDS Integers, Sequences, FiniteSets, TLC

VARIABLES
  schema,   \* which package declares the mapped classes
  store,    \* the tables: kind |-> (primary key |-> row)
  last,     \* history: the call just made and how it ended
  created,  \* history: kind |-> (primary key |-> the row its create call asked
            \* for), kept until an update or delete names that key
  cli,      \* the CLI process: the prompt or block it is at
  http,     \* the HTTP handler: where it is and the status it answers with
  gen,      \* the generator returned by get_db()
  open,     \* owner |-> whether the session it opened is open
  work,     \* two sessions inside BaseOperations.update / delete
  before,   \* history: the tables before the calls of work began
  ask       \* a UserInput getter: what it heard, printed and returned

\* The callers of the operations, and the two concurrent sessions.
front == <<cli, http, gen, open>>

conc == <<work, before, ask>>

vars == <<schema, store, last, created, cli, http, gen, open, work, before, ask>>

(* ---------------------------- bounds ----------------------------------- *)
\* The most lines one call of a getter reads.
MaxTyped == 3

\* Largest primary key the engine hands out or a caller supplies.
MaxId == 2
\* Largest number of rows stored at once, all tables together.
MaxRows == 2
\* Largest page number and page size tried.
MaxPage == 2

(* ---------------------------- schema ----------------------------------- *)
Schemas == {"models", "db_models"}

AllKinds == {"Account", "Category", "Budget", "Transaction", "RecurringExpense"}

\* The mapped classes of each schema package.
Kinds(sch) ==
  IF sch = "models" THEN {"Account", "Category", "Budget", "Transaction"}
  ELSE AllKinds

\* Column(...) declarations other than the primary key.
Columns(sch, k) ==
  IF sch = "models" THEN
    CASE k = "Account" -> {"name", "balance"}
      [] k = "Category" -> {"name", "description"}
      [] k = "Budget" -> {"name", "amount", "category_id", "start_date", "end_date"}
      [] k = "Transaction" -> {"name", "amount", "account_id", "category_id", "date",
                               "type", "interval", "billing_date", "description"}
      [] OTHER -> {}
  ELSE
    CASE k = "Account" -> {"name", "balance"}
      [] k = "Category" -> {"name", "description"}
      [] k = "Budget" -> {"category_id", "amount", "start_date", "end_date"}
      [] k = "Transaction" -> {"account_id", "category_id", "name", "amount", "type",
                               "date", "description"}
      [] k = "RecurringExpense" -> {"name", "amount", "interval", "billing_date",
                                    "category_id", "account_id", "description"}
      [] OTHER -> {}

\* Columns declared nullable=False.
NotNullCols(sch, k) ==
  IF sch = "models" THEN
    CASE k = "Account" -> {"name", "balance"}
      [] k = "Category" -> {"name"}
      [] k = "Budget" -> {"name", "amount", "category_id"}
      [] k = "Transaction" -> {"name", "amount", "account_id", "category_id", "date",
                               "type", "interval"}
      [] OTHER -> {}
  ELSE
    CASE k = "Account" -> {"name"}
      [] k = "Category" -> {"name"}
      [] k = "Budget" -> {}
      [] k = "Transaction" -> {"name", "amount", "type", "date"}
      [] k = "RecurringExpense" -> {"name", "amount", "interval", "billing_date"}
      [] OTHER -> {}

\* Columns declared with default=...: column |-> default value.
Defaults(sch, k) ==
  IF sch = "models" THEN
    CASE k = "Account" -> [c \in {"balance"} |-> 0]
      [] k = "Budget" -> [c \in {"amount"} |-> 0]
      [] k = "Transaction" -> [c \in {"interval"} |-> "ONCE"]
      [] OTHER -> <<>>
  ELSE
    CASE k = "Account" -> [c \in {"balance"} |-> 0]
      [] k = "Budget" -> [c \in {"amount"} |-> 0]
      [] OTHER -> <<>>

\* ForeignKey(...) columns: column |-> referenced kind.
ForeignKeys(sch, k) ==
  CASE k = "Budget" -> [c \in {"category_id"} |-> "Category"]
    [] k = "Transaction" -> [c \in {"account_id", "category_id"} |->
                               IF c = "account_id" THEN "Account" ELSE "Category"]
    [] k = "RecurringExpense" /\ sch = "db_models" ->
         [c \in {"account_id", "category_id"} |->
            IF c = "account_id" THEN "Account" ELSE "Category"]
    [] OTHER -> <<>>

\* relationship(...) collections declared on a parent class: the child rows
\* <<child kind, foreign-key column>> the ORM loads when the parent is deleted.
Relationships(sch, k) ==
  CASE k = "Account" ->
         {<<"Transaction", "account_id">>} \cup
         (IF sch = "db_models" THEN {<<"RecurringExpense", "account_id">>} ELSE {})
    [] k = "Category" ->
         {<<"Transaction", "category_id">>, <<"Budget", "category_id">>} \cup
         (IF sch = "db_models" THEN {<<"RecurringExpense", "category_id">>} ELSE {})
    [] OTHER -> {}

(* ---------------------------- values ----------------------------------- *)
Ids == 1..MaxId

\* Enum(...) columns: the member names of the enum class.
EnumValues(sch, c) ==
  CASE c = "type" ->
         IF sch = "models" THEN {"EXPENSE", "INCOME", "TRANSFER"}
         ELSE {"EXPENSE", "RECURRING_EXPENSE", "INCOME", "TRANSFER"}
    [] c = "interval" ->
         {"DAILY", "WEEKLY", "BI_WEEKLY", "MONTHLY", "QUARTERLY", "SEMI_ANNUALLY",
          "ANNUALLY"} \cup (IF sch = "models" THEN {"ONCE"} ELSE {})
    [] OTHER -> {}

EnumCols == {"type", "interval"}

\* Well-typed values a caller passes for a column.
Dom(c) ==
  CASE c \in {"id", "account_id", "category_id"} -> Ids
    [] c = "name" -> {"a"}
    [] c \in {"balance", "amount"} -> {1}
    [] c = "description" -> {"x"}
    [] c \in {"date", "billing_date", "start_date", "end_date"} -> {"d"}
    [] c = "type" -> {"EXPENSE"}
    [] c = "interval" -> {"DAILY"}
    [] OTHER -> {}

(* ---------------------------- payloads --------------------------------- *)
\* Python's None / "no row": the empty function.
None == <<>>

\* f restricted to the keys in S.
Restrict(f, S) == [c \in S |-> f[c]]

\* f overridden by g where g is defined.
Override(f, g) == [c \in DOMAIN f \cup DOMAIN g |-> IF c \in DOMAIN g THEN g[c] ELSE f[c]]

\* The function defined at c alone.
Single(c, v) == [d \in {c} |-> v]

\* Keyword arguments: vals are the keys passed with a value, nulls the keys
\* passed as None.
Payload(v, n) == [vals |-> v, nulls |-> n]

NoFields == Payload(<<>>, {})

Keys(F) == DOMAIN F.vals \cup F.nulls

\* Every way to give each column of S one value of its domain.
RECURSIVE Assignments(_)
Assignments(S) ==
  IF S = {} THEN {<<>>}
  ELSE LET c == CHOOSE x \in S : TRUE
       IN {Override(f, Single(c, v)) : f \in Assignments(S \ {c}), v \in Dom(c)}

\* The columns a payload leaves out or passes as None: the constrained ones
\* and description; the nullable date columns are always given a value.
Probed(sch, k) ==
  Columns(sch, k) \cap
    (NotNullCols(sch, k) \cup DOMAIN Defaults(sch, k) \cup DOMAIN ForeignKeys(sch, k)
       \cup {"description"})

\* The payloads tried by create: every column given a value; then, with the
\* foreign keys naming row 1, one probed column left out or (when it has no
\* default) passed as None; an explicit primary key; a keyword that is no
\* attribute of the class; an enum column given a name that is no member.
CreatePayloads(sch, k) ==
  LET cols == Columns(sch, k)
      full == Assignments(cols)
      base == {f \in full : \A c \in DOMAIN ForeignKeys(sch, k) : f[c] = 1}
  IN {Payload(f, {}) : f \in full}
     \cup {Payload(Restrict(f, cols \ {c}), {}) : f \in base, c \in Probed(sch, k)}
     \cup {Payload(Restrict(f, cols \ {c}), {c}) :
             f \in base, c \in Probed(sch, k) \ DOMAIN Defaults(sch, k)}
     \cup {Payload(Override(f, Single("id", i)), {}) : f \in base, i \in Ids}
     \cup {Payload(Override(f, Single("bogus", "x")), {}) : f \in base}
     \cup {Payload(Override(f, Single(c, "BOGUS")), {}) : f \in base, c \in cols \cap EnumCols}

\* The payloads tried by update: no field; one field (a value, or None for a
\* probed column); a new primary key; two fields, description
\* passed as None and then a foreign key or a probed column passed
\* as None.
UpdatePayloads(sch, k) ==
  LET cols == Columns(sch, k)
      fks == DOMAIN ForeignKeys(sch, k)
      one == UNION {{Payload(Single(c, v), {}) : v \in Dom(c)} : c \in cols \cup {"id"}}
               \cup {Payload(<<>>, {c}) : c \in Probed(sch, k)}
      first == cols \cap {"description"}
      second == {G \in one : Keys(G) \subseteq fks \cup G.nulls}
  IN {NoFields} \cup one
     \cup UNION {{Payload(G.vals, G.nulls \cup {c}) : c \in first \ Keys(G)} : G \in second}

(* ---------------------------- the tables ------------------------------- *)
\* The row model_class(**kwargs) builds: each column given a value holds it, a
\* column given none takes its default, any other column is NULL.
Construct(sch, k, F) ==
  LET cols == Columns(sch, k) \cup {"id"}
      dflt == Defaults(sch, k)
      given == DOMAIN F.vals \cap cols
  IN [c \in given \cup (DOMAIN dflt \ given) |->
        IF c \in given THEN F.vals[c] ELSE dflt[c]]

\* An update that rebuilds the row from the keywords alone.
AssignOnly(row, F) ==
  [c \in (DOMAIN F.vals \cup {"id"}) \ F.nulls |->
     IF c \in DOMAIN F.vals THEN F.vals[c] ELSE row[c]]

\* setattr(instance, key, value) for every keyword: a value overwrites the
\* column, None empties it, every other column keeps its value.
Assign(row, F) ==
  [c \in (DOMAIN row \cup DOMAIN F.vals) \ F.nulls |->
     IF c \in DOMAIN F.vals THEN F.vals[c] ELSE row[c]]

\* Table k with the row stored under its primary key.
Put(s, k, row) ==
  [s EXCEPT ![k] = [j \in DOMAIN s[k] \cup {row["id"]} |->
     IF j = row["id"] THEN row ELSE s[k][j]]]

\* Table k without the row with primary key i.
Remove(s, k, i) == [s EXCEPT ![k] = [j \in DOMAIN s[k] \ {i} |-> s[k][j]]]

\* An engine that checks NOT NULL and leaves foreign keys unchecked.
NotNullOK(sch, s) ==
  \A k \in Kinds(sch) : \A i \in DOMAIN s[k] : NotNullCols(sch, k) \subseteq DOMAIN s[k][i]

\* The NOT NULL and FOREIGN KEY constraints of the schema hold in s.
IntegrityOK(sch, s) ==
  \A k \in Kinds(sch) : \A i \in DOMAIN s[k] :
    /\ NotNullCols(sch, k) \subseteq DOMAIN s[k][i]
    /\ \A c \in DOMAIN ForeignKeys(sch, k) \cap DOMAIN s[k][i] :
         s[k][i][c] \in DOMAIN s[ForeignKeys(sch, k)[c]]

\* Every enum column of the row holds a member name of its enum class.
EnumsOK(sch, row) ==
  \A c \in DOMAIN row \cap EnumCols : row[c] \in EnumValues(sch, c)

\* Deleting a parent: the session empties the foreign key of every child row
\* loaded through a relationship of the parent.
Nullify(sch, s, k, i) ==
  [ck \in AllKinds |->
     [j \in DOMAIN s[ck] |->
        LET fk == {r[2] : r \in {q \in Relationships(sch, k) : q[1] = ck}}
            hit == {c \in fk \cap DOMAIN s[ck][j] : s[ck][j][c] = i}
        IN Restrict(s[ck][j], DOMAIN s[ck][j] \ hit)]]

TotalRows(s) == Cardinality(UNION {{<<k, i>> : i \in DOMAIN s[k]} : k \in AllKinds})

\* The keys the engine may assign to a new row: above every stored key.
AutoIds(tbl) == {i \in Ids : \A j \in DOMAIN tbl : j < i}

\* The query without its filter: the first row of the table when the key is
\* not there.
FirstUnfiltered(s, k, i) ==
  IF i \in DOMAIN s[k] THEN s[k][i]
  ELSE IF DOMAIN s[k] = {} THEN None
  ELSE s[k][CHOOSE j \in DOMAIN s[k] : \A h \in DOMAIN s[k] : j <= h]

\* db.query(model_class).filter(model_class.id == instance_id).first()
First(s, k, i) == IF i \in DOMAIN s[k] THEN s[k][i] ELSE None

(* ---------------------------- operations ------------------------------- *)
\* What a call leaves behind: the tables, how it ended ("ok" or the class of
\* the exception it raised) and the value it returned.
Outcome(s, how, res) ==
  [store |-> s, outcome |-> IF how \in {"row", "None", "True", "False", "page"} THEN "ok" ELSE how,
   returned |-> IF how \in {"row", "None", "True", "False", "page"} THEN how ELSE "",
   result |-> res]

\* The engine cannot be reached (OperationalError): the call raises and
\* rollback() leaves the tables as they were.
Unavailable(s) == Outcome(s, "OperationalError", None)

\* BaseOperations.create when the engine answers: the keyword arguments are
\* rejected by the constructor or by the enum type, or the INSERT is given
\* the caller's key or a fresh one and is committed or rejected.
CreateResult(sch, s, k, F) ==
  IF ~(Keys(F) \subseteq Columns(sch, k) \cup {"id"})
  THEN {Outcome(s, "TypeError", None)}
  ELSE LET new_instance == Construct(sch, k, F) IN
       IF ~EnumsOK(sch, new_instance) THEN {Outcome(s, "StatementError", None)}
       ELSE {LET row == Override(new_instance, Single("id", i))
                 new == Put(s, k, row)
             IN IF i \in DOMAIN s[k] \/ ~IntegrityOK(sch, new)
                THEN Outcome(s, "IntegrityError", None)
                ELSE Outcome(new, "row", First(new, k, i)) :
             i \in (IF "id" \in DOMAIN new_instance THEN {new_instance["id"]}
                    ELSE AutoIds(s[k]))}

\* db.refresh(new_instance) after the commit: the row is read back, or the
\* engine has become unreachable and the call raises with the row stored.
Refresh(r) ==
  IF r.outcome = "ok" THEN {r, Outcome(r.store, "OperationalError", None)} ELSE {r}

\* BaseOperations.create: every way the call can end.
CreateResults(sch, s, k, F) ==
  {Unavailable(s)} \cup UNION {Refresh(r) : r \in CreateResult(sch, s, k, F)}

\* BaseOperations.read
ReadResult(sch, s, k, i) ==
  IF First(s, k, i) = None THEN Outcome(s, "None", None) ELSE Outcome(s, "row", First(s, k, i))

\* A commit on an engine without the primary-key constraint: the row is
\* written over whatever is stored under its key.
UpdateOverwrites(sch, s, k, i, row) ==
  LET new == Put(Remove(s, k, i), k, row) IN
  IF ~EnumsOK(sch, row) THEN Outcome(s, "StatementError", None)
  ELSE IF ~IntegrityOK(sch, new) THEN Outcome(s, "IntegrityError", None)
  ELSE Outcome(new, "row", First(new, k, row["id"]))

\* db.commit() of update: the pending row is written, or the engine rejects
\* it and rollback() restores the tables.
UpdateCommit(sch, s, k, i, row) ==
  LET new == Put(Remove(s, k, i), k, row) IN
  IF ~EnumsOK(sch, row) THEN Outcome(s, "StatementError", None)
  ELSE IF (row["id"] # i /\ row["id"] \in DOMAIN s[k]) \/ ~IntegrityOK(sch, new)
  THEN Outcome(s, "IntegrityError", None)
  ELSE Outcome(new, "row", First(new, k, row["id"]))

\* An update that takes an empty keyword set for a missing record.
UpdateNeedsFields(sch, s, k, i, F) ==
  LET instance == First(s, k, i) IN
  IF instance = None \/ Keys(F) = {} THEN Outcome(s, "None", None)
  ELSE UpdateCommit(sch, s, k, i, Assign(instance, F))

\* BaseOperations.update
UpdateResult(sch, s, k, i, F) ==
  LET instance == First(s, k, i) IN
  IF instance = None THEN Outcome(s, "None", None)
  ELSE UpdateCommit(sch, s, k, i, Assign(instance, F))

\* delete without its commit: True is returned and the row stays.
DeleteUncommitted(sch, s, k, i) ==
  IF First(s, k, i) = None THEN Outcome(s, "False", FALSE) ELSE Outcome(s, "True", TRUE)

\* BaseOperations.delete
DeleteResult(sch, s, k, i) ==
  LET instance == First(s, k, i) IN
  IF instance = None THEN Outcome(s, "False", FALSE)
  ELSE LET new == Remove(Nullify(sch, s, k, i), k, i) IN
       IF ~IntegrityOK(sch, new) THEN Outcome(s, "IntegrityError", None)
       ELSE Outcome(new, "True", TRUE)

\* The orders in which the engine may hand back the rows with keys S: the
\* statements carry no ORDER BY, so every enumeration of S is one.
RECURSIVE Scans(_)
Scans(S) ==
  IF S = {} THEN {<<>>}
  ELSE UNION {{<<x>> \o q : q \in Scans(S \ {x})} : x \in S}

\* An offset computed from page instead of page - 1.
OffsetNextPage(rows, n, m) ==
  SubSeq(rows, n + m + 1, IF n + m + m < Len(rows) THEN n + m + m ELSE Len(rows))

\* query.offset(n).limit(m).all() for n >= 0 and m >= 0
OffsetLimit(rows, n, m) ==
  SubSeq(rows, n + 1, IF n + m < Len(rows) THEN n + m ELSE Len(rows))

\* total = query.count(); instances = query.offset(...).limit(...).all():
\* the engine refuses a negative LIMIT or OFFSET, and the pair
\* (instances, total) is returned otherwise.
Paginate(s, rows, page, per_page) ==
  IF per_page < 0 \/ (page - 1) * per_page < 0
  THEN Outcome(s, "ProgrammingError", None)
  ELSE Outcome(s, "page",
               <<OffsetLimit(rows, (page - 1) * per_page, per_page), Len(rows)>>)

\* BaseOperations.get_all, the engine scanning the table in the order scan.
GetAllResult(sch, s, k, page, per_page, scan) ==
  LET query == [n \in 1..Len(scan) |-> s[k][scan[n]]]
  IN Paginate(s, query, page, per_page)

(* ---------------------------- query filters --------------------------- *)
\* The comparison operators query names.
Ops == {">", "<", ">=", "<=", "==", "!="}

\* The Python values met in a filter: a string, a number, None.
Str(x) == [s |-> x]

Num(x) == [n |-> x]

NoneItem == [null |-> TRUE]

ItemValue(it) == IF "s" \in DOMAIN it THEN it.s ELSE it.n

\* A keyword's value: one value, or a list (or tuple) of values.
Literal(it) == [lit |-> it]

List(its) == [items |-> its]

\* A comparison in which a column without a value differs from every value.
CompareAbsent(row, c, op, it) ==
  IF "null" \in DOMAIN it
  THEN (op = "==" /\ c \notin DOMAIN row) \/ (op = "!=" /\ c \in DOMAIN row)
  ELSE IF c \notin DOMAIN row THEN op = "!="
  ELSE LET a == row[c]
           b == ItemValue(it)
       IN CASE op = ">" -> a > b
            [] op = "<" -> a < b
            [] op = ">=" -> a >= b
            [] op = "<=" -> a <= b
            [] op = "==" -> a = b
            [] op = "!=" -> a # b

\* column <op> val as the engine decides it for one row: a comparison with
\* a NULL column holds for no operator; == None and != None are rendered
\* IS NULL and IS NOT NULL.
Compare(row, c, op, it) ==
  IF "null" \in DOMAIN it
  THEN (op = "==" /\ c \notin DOMAIN row) \/ (op = "!=" /\ c \in DOMAIN row)
  ELSE /\ c \in DOMAIN row
       /\ LET a == row[c]
              b == ItemValue(it)
          IN CASE op = ">" -> a > b
               [] op = "<" -> a < b
               [] op = ">=" -> a >= b
               [] op = "<=" -> a <= b
               [] op = "==" -> a = b
               [] op = "!=" -> a # b

\* The condition with every list handed to in_, whatever its length and
\* its first element; a string element equals no number.
HoldsAmong(row, c, value) ==
  IF "items" \in DOMAIN value
  THEN /\ c \in DOMAIN row
       /\ \E n \in 1..Len(value.items) :
            /\ "null" \notin DOMAIN value.items[n]
            /\ ("n" \in DOMAIN value.items[n])
                 = (c \in {"id", "account_id", "category_id", "amount", "balance"})
            /\ row[c] = ItemValue(value.items[n])
  ELSE Compare(row, c, "==", value.lit)

\* The condition query builds for the keyword c = value.
Holds(row, c, value) ==
  IF "items" \in DOMAIN value
  THEN IF /\ Len(value.items) = 2
          /\ "s" \in DOMAIN value.items[1]
          /\ value.items[1].s \in Ops
       THEN Compare(row, c, value.items[1].s, value.items[2])
       ELSE /\ c \in DOMAIN row
            /\ \E n \in 1..Len(value.items) :
                 /\ "null" \notin DOMAIN value.items[n]
                 /\ row[c] = ItemValue(value.items[n])
  ELSE Compare(row, c, "==", value.lit)

\* A row passing one condition or another.
MatchesAny(row, filters) ==
  filters = <<>> \/ \E c \in DOMAIN filters : Holds(row, c, filters[c])

\* and_(*filter_conditions)
Matches(row, filters) == \A c \in DOMAIN filters : Holds(row, c, filters[c])

\* BaseOperations.query, the engine handing back the rows in the order scan.
QueryResult(sch, s, k, page, per_page, filters, scan) ==
  IF ~(DOMAIN filters \subseteq Columns(sch, k) \cup {"id"})
  THEN Outcome(s, "AttributeError", None)
  ELSE LET rows == [n \in 1..Len(scan) |-> s[k][scan[n]]]
           query == SelectSeq(rows, LAMBDA row : Matches(row, filters))
       IN Paginate(s, query, page, per_page)

QueryResults(sch, s, k, page, per_page, filters) ==
  {QueryResult(sch, s, k, page, per_page, filters, scan) : scan \in Scans(DOMAIN s[k])}
    \cup {Unavailable(s)}

\* The columns holding numbers; the others hold strings.
IsNumber(c) == c \in {"id", "account_id", "category_id", "amount", "balance"}

\* The value a filter compares column c with.
Sample(c) == IF IsNumber(c) THEN Num(1) ELSE Str(CHOOSE v \in Dom(c) : TRUE)

\* The filters on one column: a literal; a list of literals; a pair of an
\* operator and a literal (the order comparisons on numbers only); on a
\* string column a pair whose first element is no operator of Ops; on a
\* nullable column None, == None and != None.
SingleFilters(sch, k, c) ==
  LET v == Sample(c)
      ops == IF IsNumber(c) THEN Ops ELSE {"==", "!="}
  IN {Literal(v), List(IF IsNumber(c) THEN <<v, Num(2)>> ELSE <<v>>)}
     \cup {List(<<Str(op), v>>) : op \in ops}
     \cup (IF IsNumber(c) THEN {} ELSE {List(<<Str("~"), v>>)})
     \cup (IF c \in NotNullCols(sch, k) \cup {"id"} THEN {}
           ELSE {Literal(NoneItem), List(<<Str("=="), NoneItem>>),
                 List(<<Str("!="), NoneItem>>)})

\* The keyword sets tried by query: none; one column; the primary key
\* and one more column; a keyword that is no attribute of the class.
QueryFilters(sch, k) ==
  LET cols == Columns(sch, k) \cup {"id"}
      one == UNION {{Single(c, f) : f \in SingleFilters(sch, k, c)} : c \in cols}
      plain(c) == {Literal(Sample(c)), List(<<Str("!="), Sample(c)>>)}
      second == Columns(sch, k) \cap {"description", "balance", "amount", "category_id"}
  IN {<<>>} \cup one
     \cup UNION {{Override(Single("id", f), Single(c, g)) : f \in plain("id"), g \in plain(c)}
                  : c \in second}
     \cup {Single("bogus", Literal(Str("x")))}

(* ---------------------------- a loaded instance ----------------------- *)
\* The keywords of F that name the columns in S.
RestrictPayload(F, S) == Payload(Restrict(F.vals, DOMAIN F.vals \cap S), F.nulls \cap S)

\* The columns whose attribute setattr changes on the loaded instance: the
\* unit of work writes these and no others.
Changed(sch, k, item, F) ==
  {c \in DOMAIN F.vals \cap (Columns(sch, k) \cup {"id"}) :
     c \notin DOMAIN item \/ item[c] # F.vals[c]}
    \cup (F.nulls \cap DOMAIN item)

\* setattr and db.commit() of update on an instance the session loaded
\* earlier: nothing is sent when no attribute changed; UPDATE ... SET the
\* changed columns WHERE id = i otherwise, which raises StaleDataError when
\* it matches no row.
CommitLoaded(sch, s, k, i, item, F) ==
  LET changed == Changed(sch, k, item, F) IN
  IF changed = {} THEN Outcome(s, "row", item)
  ELSE IF i \notin DOMAIN s[k] THEN Outcome(s, "StaleDataError", None)
  ELSE UpdateCommit(sch, s, k, i, Assign(s[k][i], RestrictPayload(F, changed)))

\* db.delete(instance) and db.commit() of delete on an instance the session
\* loaded earlier: a DELETE that matches no row is a warning, not an error.
DeleteLoaded(sch, s, k, i) ==
  IF i \notin DOMAIN s[k] THEN Outcome(s, "True", TRUE) ELSE DeleteResult(sch, s, k, i)

\* Every way a read, an update, a delete or a get_all can end.
ReadResults(sch, s, k, i) == {ReadResult(sch, s, k, i), Unavailable(s)}

UpdateResults(sch, s, k, i, F) == {UpdateResult(sch, s, k, i, F), Unavailable(s)}

DeleteResults(sch, s, k, i) == {DeleteResult(sch, s, k, i), Unavailable(s)}

GetAllResults(sch, s, k, page, per_page) ==
  {GetAllResult(sch, s, k, page, per_page, scan) : scan \in Scans(DOMAIN s[k])}
    \cup {Unavailable(s)}

\* A call that ended as r leaves r's tables behind.
Apply(r) == store' = r.store /\ UNCHANGED schema

Create(k, F) ==
  /\ TotalRows(store) < MaxRows
  /\ \E r \in CreateResults(schema, store, k, F) : Apply(r)

Read(k, i) == \E r \in ReadResults(schema, store, k, i) : Apply(r)

Update(k, i, F) == \E r \in UpdateResults(schema, store, k, i, F) : Apply(r)

Delete(k, i) == \E r \in DeleteResults(schema, store, k, i) : Apply(r)

GetAll(k, page, per_page) ==
  \E r \in GetAllResults(schema, store, k, page, per_page) : Apply(r)

Query(k, page, per_page, filters) ==
  \E r \in QueryResults(schema, store, k, page, per_page, filters) : Apply(r)

\* The payload sets, computed once.
CreateInputs == [sch \in Schemas |-> [k \in AllKinds |-> CreatePayloads(sch, k)]]

QueryInputs == [sch \in Schemas |-> [k \in AllKinds |-> QueryFilters(sch, k)]]

\* The keyword sets the Query action passes: none, a literal or a != pair on
\* one column, a keyword that is no attribute; a query changes no table.
QueryTried ==
  [sch \in Schemas |-> [k \in AllKinds |->
     {F \in QueryFilters(sch, k) :
        \A c \in DOMAIN F :
          c = "bogus" \/ F[c] \in {Literal(Sample(c)), List(<<Str("!="), Sample(c)>>)}}]]

UpdateTable == [sch \in Schemas |-> [k \in AllKinds |-> UpdatePayloads(sch, k)]]

\* The payloads tried on row i of table k: all of them when the row is
\* stored, and those without a column when it is not.
UpdateInputs(k, i) ==
  IF i \in DOMAIN store[k] THEN UpdateTable[schema][k]
  ELSE {F \in UpdateTable[schema][k] : Keys(F) \subseteq {"id"}}

\* Who opens a session: get_db, a route handler, a menu action of the CLI.
Owners == {"get_db", "route", "cli"}

\* The CLI waiting at the main menu or at the submenu of a kind.
AtMenu(pc, k) ==
  [pc |-> pc, op |-> "", kind |-> k, id |-> 0, item |-> None, how |-> ""]

\* The two sessions, and a session that is in no call.
Workers == {1, 2}

\* No getter has returned a value.
NoValue == [is |-> "", val |-> 0]

\* No getter is being called.
NotAsking ==
  [pc |-> "idle", getter |-> "", min |-> None, max |-> None,
   heard |-> <<>>, printed |-> <<>>, value |-> NoValue, raised |-> ""]

Idle ==
  [pc |-> "idle", op |-> "", kind |-> "", id |-> 0, item |-> None, data |-> NoFields,
   outcome |-> ""]

Init ==
  /\ schema \in Schemas
  /\ store = [k \in AllKinds |-> <<>>]
  /\ last = [op |-> "", outcome |-> "", returned |-> ""]
  /\ created = [k \in AllKinds |-> <<>>]
  /\ cli = AtMenu("main", "")
  /\ http = [pc |-> "idle", status |-> 0]
  /\ gen = "idle"
  /\ open = [o \in Owners |-> FALSE]
  /\ work = [w \in Workers |-> Idle]
  /\ before = [k \in AllKinds |-> <<>>]
  /\ ask = NotAsking

\* The page numbers and page sizes tried.
Pages == 1..MaxPage

\* The page sizes asked for, valid or not: negative, zero, and one more than
\* the largest valid size tried.
PerPages == (-1)..(MaxPage + 1)

Next ==
  \/ \E k \in Kinds(schema) : \E F \in CreateInputs[schema][k] :
       Create(k, F) /\ UNCHANGED <<last, created, front, conc>>
  \/ \E k \in Kinds(schema) : \E i \in Ids :
       Read(k, i) /\ UNCHANGED <<last, created, front, conc>>
  \/ \E k \in Kinds(schema) : \E i \in Ids : \E F \in UpdateInputs(k, i) :
       Update(k, i, F) /\ UNCHANGED <<last, created, front, conc>>
  \/ \E k \in Kinds(schema) : \E i \in Ids :
       Delete(k, i) /\ UNCHANGED <<last, created, front, conc>>
  \/ \E k \in Kinds(schema) : \E page \in Pages : \E per_page \in PerPages :
       GetAll(k, page, per_page) /\ UNCHANGED <<last, created, front, conc>>
  \/ \E k \in Kinds(schema) : \E filters \in QueryTried[schema][k] :
       Query(k, 1, MaxPage, filters) /\ UNCHANGED <<last, created, front, conc>>

Spec == Init /\ [][Next]_vars

(* ---------------------------- history ---------------------------------- *)
\* The row a create call asks for: the values it passes, the declared default
\* of every column it leaves out, and the key the call returned.
Requested(sch, k, F, i) ==
  [c \in DOMAIN F.vals \cup DOMAIN Defaults(sch, k) \cup {"id"} |->
     IF c \in DOMAIN F.vals THEN F.vals[c]
     ELSE IF c = "id" THEN i ELSE Defaults(sch, k)[c]]

\* The call just made ended as one of the results R.
Observed(op, R) ==
  \E r \in R : /\ store' = r.store
               /\ last' = [op |-> op, outcome |-> r.outcome, returned |-> r.returned]

\* A create that returned adds the row it asked for to the history.
Remember(k, F) ==
  IF last'.outcome = "ok"
  THEN LET i == CHOOSE j \in DOMAIN store'[k] : j \notin DOMAIN store[k] IN
       created' = [created EXCEPT ![k] =
         [j \in DOMAIN created[k] \cup {i} |->
            IF j = i THEN Requested(schema, k, F, i) ELSE created[k][j]]]
  ELSE UNCHANGED created

\* An update or delete of key i of table k removes it from the history.
Forget(k, i) ==
  created' = [created EXCEPT ![k] = [j \in DOMAIN created[k] \ {i} |-> created[k][j]]]

NextHistory ==
  \/ \E k \in Kinds(schema) : \E F \in CreateInputs[schema][k] :
       /\ Create(k, F)
       /\ Observed("create", CreateResults(schema, store, k, F))
       /\ Remember(k, F)
       /\ UNCHANGED <<front, conc>>
  \/ \E k \in Kinds(schema) : \E i \in Ids :
       /\ Read(k, i)
       /\ Observed("read", ReadResults(schema, store, k, i))
       /\ UNCHANGED <<created, front, conc>>
  \/ \E k \in Kinds(schema) : \E i \in Ids : \E F \in UpdateInputs(k, i) :
       /\ Update(k, i, F)
       /\ Observed("update", UpdateResults(schema, store, k, i, F))
       /\ Forget(k, i)
       /\ UNCHANGED <<front, conc>>
  \/ \E k \in Kinds(schema) : \E i \in Ids :
       /\ Delete(k, i)
       /\ Observed("delete", DeleteResults(schema, store, k, i))
       /\ Forget(k, i)
       /\ UNCHANGED <<front, conc>>

SpecHistory == Init /\ [][NextHistory]_vars

(* ---------------------------- HTTP handlers --------------------------- *)
\* Base.to_dict of expense_tracker/models/base.py, inherited by Account and
\* Category: every column under its name, NULL as null.
BaseToDict(sch, k, row) ==
  LET keys == Columns(sch, k) \cup {"id"}
  IN Payload(Restrict(row, keys \cap DOMAIN row), keys \ DOMAIN row)

\* The Date and Float columns of models/*.py.
DateCols == {"date", "billing_date", "start_date", "end_date"}

FloatCols == {"balance", "amount"}

\* The text of the date d in ISO form, and a text of it in another form the
\* engine reads as a date.
IsoText == "2024-01-05"

LooseText == "2024-1-5"

\* An amount of more digits than a FLOAT column gives back.
LongAmount == 1234567

\* A Date column bound to a text: the engine reads the date in it.
ParseDate(t) == IF t \in {IsoText, LooseText} THEN "d" ELSE t

\* date.isoformat()
IsoFormat(d) == IF d = "d" THEN IsoText ELSE d

\* A Float column is a single-precision FLOAT of the engine, which gives a
\* number back with six significant digits (numbers below ten million here).
FloatColumn(n) == IF n < 1000000 THEN n ELSE ((n + 5) \div 10) * 10

\* The value the column c holds for the JSON value v bound to it.
Bind(c, v) ==
  IF c \in DateCols THEN ParseDate(v)
  ELSE IF c \in FloatCols THEN FloatColumn(v)
  ELSE v

\* **data: the keyword arguments as the columns hold them.
Bound(F) == Payload([c \in DOMAIN F.vals |-> Bind(c, F.vals[c])], F.nulls)

\* A request body that carries the payload F: the dates as ISO texts.
Json(F) ==
  Payload([c \in DOMAIN F.vals |-> IF c \in DateCols THEN IsoFormat(F.vals[c]) ELSE F.vals[c]],
          F.nulls)

\* to_dict(): Budget and Transaction declare their own, with the dates in
\* ISO format and the enums by member name; a NULL date is answered as
\* null, and Transaction.date, which is NOT NULL, is formatted as it is.
ToDict(sch, k, row) ==
  IF k \in {"Budget", "Transaction"}
  THEN LET keys == Columns(sch, k) \cup {"id"}
           dates == keys \cap DateCols
       IN Payload([c \in keys \cap DOMAIN row |->
                     IF c \in dates THEN IsoFormat(row[c]) ELSE row[c]],
                  keys \ DOMAIN row)
  ELSE BaseToDict(sch, k, row)

\* What a handler answers: the tables it leaves, the status, the JSON body.
Answer(s, status, body) == [store |-> s, status |-> status, body |-> body]

NotFound == Payload(Single("error", "not found"), {})

\* An exception that leaves the view function: the framework answers 500.
ServerError(s) == Answer(s, 500, NoFields)

\* A PUT that answers 200 for a missing record.
PutAlways(sch, k, r) ==
  IF r.outcome # "ok" THEN ServerError(r.store)
  ELSE Answer(r.store, 200, IF r.returned = "row" THEN ToDict(sch, k, r.result) ELSE NoFields)

\* get_account and its like, BaseOperations.read having ended as r.
GetAnswer(sch, k, r) ==
  IF r.outcome # "ok" THEN ServerError(r.store)
  ELSE IF r.returned = "row" THEN Answer(r.store, 200, ToDict(sch, k, r.result))
  ELSE Answer(r.store, 404, NotFound)

\* create_account and its like, BaseOperations.create having ended as r.
PostAnswer(sch, k, r) ==
  IF r.outcome # "ok" THEN ServerError(r.store)
  ELSE Answer(r.store, 201, ToDict(sch, k, r.result))

\* update_account and its like, BaseOperations.update having ended as r.
PutAnswer(sch, k, r) ==
  IF r.outcome # "ok" THEN ServerError(r.store)
  ELSE IF r.returned = "row" THEN Answer(r.store, 200, ToDict(sch, k, r.result))
  ELSE Answer(r.store, 404, NotFound)

\* delete_account and its like, BaseOperations.delete having ended as r.
DeleteAnswer(sch, k, r) ==
  IF r.outcome # "ok" THEN ServerError(r.store)
  ELSE IF r.returned = "True" THEN Answer(r.store, 204, NoFields)
  ELSE Answer(r.store, 404, NotFound)

\* get_all_accounts and its like: the list itself is not kept.
ListAnswer(sch, k, r) ==
  IF r.outcome # "ok" THEN ServerError(r.store) ELSE Answer(r.store, 200, NoFields)

\* Every answer a request can get.
HttpAnswers(sch, s, method, k, i, F) ==
  CASE method = "GET" -> {GetAnswer(sch, k, r) : r \in ReadResults(sch, s, k, i)}
    [] method = "POST" -> {PostAnswer(sch, k, r) : r \in CreateResults(sch, s, k, Bound(F))}
    [] method = "PUT" -> {PutAnswer(sch, k, r) : r \in UpdateResults(sch, s, k, i, Bound(F))}
    [] method = "DELETE" -> {DeleteAnswer(sch, k, r) : r \in DeleteResults(sch, s, k, i)}
    [] method = "LIST" -> {ListAnswer(sch, k, r) : r \in GetAllResults(sch, s, k, 1, MaxPage)}

\* The request bodies tried with a method.
HttpBodies(method, k, i) ==
  CASE method = "POST" -> {Json(F) : F \in CreateInputs[schema][k]}
    [] method = "PUT" -> {Json(F) : F \in UpdateInputs(k, i)}
    [] OTHER -> {NoFields}

\* with get_db_session() as session: the session is opened, or the engine
\* cannot be built, the exception leaves the view and the answer is 500.
HttpEnter ==
  /\ schema = "models"
  /\ http.pc = "idle"
  /\ \/ http' = [pc |-> "with", status |-> 0] /\ open' = [open EXCEPT !["route"] = TRUE]
     \/ http' = [pc |-> "idle", status |-> 500] /\ UNCHANGED open
  /\ UNCHANGED <<schema, store, last, created, cli, gen, conc>>

\* The body of the with block: the operation runs and the answer is built.
HttpHandle(method, k, i, F) ==
  /\ http.pc = "with"
  /\ method = "POST" => TotalRows(store) < MaxRows
  /\ \E a \in HttpAnswers(schema, store, method, k, i, F) :
       /\ store' = a.store
       /\ http' = [pc |-> "return", status |-> a.status]
  /\ UNCHANGED <<schema, last, created, cli, gen, open, conc>>

\* Leaving the with block, by return or by exception, closes the session.
HttpExit ==
  /\ http.pc = "return"
  /\ http' = [http EXCEPT !.pc = "idle"]
  /\ open' = [open EXCEPT !["route"] = FALSE]
  /\ UNCHANGED <<schema, store, last, created, cli, gen, conc>>

(* ---------------------------- get_db ---------------------------------- *)
\* next(get_db()): db = SessionLocal() and the session is yielded.
GetDbNext ==
  /\ gen = "idle"
  /\ gen' = "yielded"
  /\ open' = [open EXCEPT !["get_db"] = TRUE]
  /\ UNCHANGED <<schema, store, last, created, cli, http, conc>>

\* The generator is resumed, closed or thrown into: finally: db.close()
GetDbClose ==
  /\ gen = "yielded"
  /\ gen' = "idle"
  /\ open' = [open EXCEPT !["get_db"] = FALSE]
  /\ UNCHANGED <<schema, store, last, created, cli, http, conc>>

(* ---------------------------- typed input ----------------------------- *)
\* A line returned by input() is the sequence of its characters.
Capitals ==
  <<"A", "B", "C", "D", "E", "F", "G", "H", "I", "J", "K", "L", "M",
    "N", "O", "P", "Q", "R", "S", "T", "U", "V", "W", "X", "Y", "Z">>

Smalls ==
  <<"a", "b", "c", "d", "e", "f", "g", "h", "i", "j", "k", "l", "m",
    "n", "o", "p", "q", "r", "s", "t", "u", "v", "w", "x", "y", "z">>

LowerChar(ch) ==
  IF \E i \in 1..Len(Capitals) : Capitals[i] = ch
  THEN Smalls[CHOOSE i \in 1..Len(Capitals) : Capitals[i] = ch]
  ELSE ch

\* str.lower()
lower(value) == [i \in 1..Len(value) |-> LowerChar(value[i])]

RECURSIVE lstrip(_)
lstrip(value) ==
  IF Len(value) > 0 /\ value[1] = " " THEN lstrip(Tail(value)) ELSE value

RECURSIVE rstrip(_)
rstrip(value) ==
  IF Len(value) > 0 /\ value[Len(value)] = " "
  THEN rstrip(SubSeq(value, 1, Len(value) - 1))
  ELSE value

\* str.strip()
strip(value) == rstrip(lstrip(value))

\* str.split(sep)
RECURSIVE Split(_, _)
Split(value, sep) ==
  IF \E i \in 1..Len(value) : value[i] = sep
  THEN LET i == CHOOSE j \in 1..Len(value) :
                  value[j] = sep /\ \A h \in 1..(j - 1) : value[h] # sep
       IN <<SubSeq(value, 1, i - 1)>> \o Split(SubSeq(value, i + 1, Len(value)), sep)
  ELSE <<value>>

EXIT_COMMANDS == {<<"e", "x", "i", "t">>, <<"q", "u", "i", "t">>}

is_exit_command(value) == lower(value) \in EXIT_COMMANDS

\* The string 'exit' the getters return.
ExitText == <<"e", "x", "i", "t">>

DigitChars == <<"0", "1", "2", "3", "4", "5", "6", "7", "8", "9">>

IsDigit(ch) == \E i \in 1..10 : DigitChars[i] = ch

DigitOf(ch) == (CHOOSE i \in 1..10 : DigitChars[i] = ch) - 1

AllDigits(ds) == Len(ds) > 0 /\ \A i \in 1..Len(ds) : IsDigit(ds[i])

RECURSIVE Decimal(_)
Decimal(ds) ==
  IF Len(ds) = 0 THEN 0
  ELSE 10 * Decimal(SubSeq(ds, 1, Len(ds) - 1)) + DigitOf(ds[Len(ds)])

\* A conversion gives a value or raises ValueError.
Parsed(v) == [ok |-> TRUE, val |-> v]

ValueError == [ok |-> FALSE, val |-> 0]

HasSign(s) == Len(s) > 0 /\ s[1] \in {"-", "+"}

Unsigned(s) == IF HasSign(s) THEN Tail(s) ELSE s

Signed(s, n) == IF HasSign(s) /\ s[1] = "-" THEN 0 - n ELSE n

\* int(value): blanks around the text are ignored, then an optional sign
\* and decimal digits.
ParseInt(value) ==
  LET s == strip(value)
  IN IF AllDigits(Unsigned(s)) THEN Parsed(Signed(s, Decimal(Unsigned(s))))
     ELSE ValueError

\* float(value), in tenths: blanks around the text are ignored, then an
\* optional sign, digits, and optionally a point and more digits, with a
\* digit on at least one side of the point.  The lines typed carry at most
\* one decimal, so the value in tenths is exact.
ParseFloat(value) ==
  LET s == strip(value)
      parts == Split(Unsigned(s), ".")
      whole == parts[1]
      frac == IF Len(parts) = 2 THEN parts[2] ELSE <<>>
      digits == whole \o frac
  IN IF Len(parts) <= 2 /\ AllDigits(digits)
     THEN Parsed(Signed(s, 10 * Decimal(whole)
                           + (IF Len(frac) = 0 THEN 0 ELSE DigitOf(frac[1]))))
     ELSE ValueError

DaysIn(y, m) ==
  IF m = 2
  THEN IF (y % 4 = 0 /\ y % 100 # 0) \/ y % 400 = 0 THEN 29 ELSE 28
  ELSE IF m \in {4, 6, 9, 11} THEN 30 ELSE 31

\* datetime.strptime(date_string, "%Y-%m-%d").date(): four digits, then one
\* or two digits for a month, then one or two digits for a day of that
\* month; the value is <<year, month, day>>.
Strptime(date_string) ==
  LET f == Split(date_string, "-")
  IN IF /\ Len(f) = 3
        /\ Len(f[1]) = 4 /\ AllDigits(f[1]) /\ Decimal(f[1]) >= 1
        /\ Len(f[2]) \in 1..2 /\ AllDigits(f[2]) /\ Decimal(f[2]) \in 1..12
        /\ Len(f[3]) \in 1..2 /\ AllDigits(f[3])
        /\ Decimal(f[3]) \in 1..DaysIn(Decimal(f[1]), Decimal(f[2]))
     THEN Parsed(<<Decimal(f[1]), Decimal(f[2]), Decimal(f[3])>>)
     ELSE ValueError

\* An optional bound: None, or a number.
Some(n) == <<n>>

\* A range check that leaves the bounds themselves outside.
check_number_inside(value, min_value, max_value) ==
  /\ min_value # None => min_value[1] < value
  /\ max_value # None => value < max_value[1]

check_number_range(value, min_value, max_value) ==
  IF min_value # None /\ max_value # None
  THEN min_value[1] <= value /\ value <= max_value[1]
  ELSE IF min_value # None THEN min_value[1] <= value
  ELSE IF max_value # None THEN value <= max_value[1]
  ELSE TRUE

check_string_length(value, min_value, max_value) ==
  IF min_value # None /\ max_value # None
  THEN min_value[1] <= Len(value) /\ Len(value) <= max_value[1]
  ELSE IF min_value # None THEN min_value[1] <= Len(value)
  ELSE IF max_value # None THEN Len(value) <= max_value[1]
  ELSE TRUE

\* What input() does: it returns a line, or raises EOFError or
\* KeyboardInterrupt.
Typed(l) == [raised |-> "", line |-> l]

Interrupted(e) == [raised |-> e, line |-> <<>>]

Interrupts == {"EOFError", "KeyboardInterrupt"}

\* The values a getter returns: an int, a float (in tenths), a str, a date.
IntValue(n) == [is |-> "int", val |-> n]

FloatValue(t) == [is |-> "float", val |-> t]

StrValue(s) == [is |-> "str", val |-> s]

DateValue(d) == [is |-> "date", val |-> d]

\* One pass through the loop of a getter: it returns a value, or prints a
\* message and goes round again; no exception leaves the getter.
Returns(v) == [returned |-> TRUE, value |-> v, printed |-> "", raised |-> ""]

Prints(m) == [returned |-> FALSE, value |-> NoValue, printed |-> m, raised |-> ""]

InvalidMessage == "Invalid input"

RangeMessage == "The input does not meet the validation criteria"

InterruptedMessage == "Input interrupted"

get_int(e, min_value, max_value) ==
  IF e.raised \in Interrupts THEN Prints(InterruptedMessage)
  ELSE IF is_exit_command(e.line) THEN Returns(StrValue(ExitText))
  ELSE LET int_value == ParseInt(e.line)
       IN IF ~int_value.ok THEN Prints(InvalidMessage)
          ELSE IF /\ min_value # None \/ max_value # None
                  /\ ~check_number_range(int_value.val, min_value, max_value)
          THEN Prints(RangeMessage)
          ELSE Returns(IntValue(int_value.val))

get_float(e, min_value, max_value) ==
  IF e.raised \in Interrupts THEN Prints(InterruptedMessage)
  ELSE IF is_exit_command(e.line) THEN Returns(StrValue(ExitText))
  ELSE LET float_value == ParseFloat(e.line)
       IN IF ~float_value.ok THEN Prints(InvalidMessage)
          ELSE IF /\ min_value # None \/ max_value # None
                  /\ ~check_number_range(float_value.val, min_value, max_value)
          THEN Prints(RangeMessage)
          ELSE Returns(FloatValue(float_value.val))

get_string(e, min_length, max_length) ==
  IF e.raised \in Interrupts THEN Prints(InterruptedMessage)
  ELSE LET value == strip(e.line)
       IN IF is_exit_command(value) THEN Returns(StrValue(ExitText))
          ELSE IF /\ min_length # None \/ max_length # None
                  /\ ~check_string_length(value, min_length, max_length)
          THEN Prints(RangeMessage)
          ELSE Returns(StrValue(value))

get_date(e) ==
  IF e.raised \in Interrupts THEN Prints(InterruptedMessage)
  ELSE LET date_string == strip(e.line)
       IN IF is_exit_command(date_string) THEN Returns(StrValue(ExitText))
          ELSE IF ~Strptime(date_string).ok THEN Prints(InvalidMessage)
          ELSE Returns(DateValue(Strptime(date_string).val))

\* Getters that let the exception of input() leave them.
PassRaising(getter, e, min_value, max_value) ==
  IF e.raised \in Interrupts
  THEN [returned |-> TRUE, value |-> NoValue, printed |-> "", raised |-> e.raised]
  ELSE CASE getter = "get_int" -> get_int(e, min_value, max_value)
         [] getter = "get_float" -> get_float(e, min_value, max_value)
         [] getter = "get_string" -> get_string(e, min_value, max_value)
         [] getter = "get_date" -> get_date(e)

Getters == {"get_int", "get_float", "get_string", "get_date"}

Pass(getter, e, min_value, max_value) ==
  CASE getter = "get_int" -> get_int(e, min_value, max_value)
    [] getter = "get_float" -> get_float(e, min_value, max_value)
    [] getter = "get_string" -> get_string(e, min_value, max_value)
    [] getter = "get_date" -> get_date(e)

\* The lines typed.
Lines ==
  {<<"5">>,
   <<"0">>,
   <<"1", "1">>,
   <<"-", "1">>,
   <<" ", "7", " ">>,
   <<"5", ".", "5">>,
   <<"a", "b", "c">>,
   <<>>,
   <<"e", "x", "i", "t">>,
   <<"E", "X", "I", "T">>,
   <<"Q", "u", "i", "t">>,
   <<" ", "q", "u", "i", "t">>,
   <<"2", "0", "2", "4", "-", "0", "1", "-", "0", "5">>,
   <<"2", "0", "2", "4", "-", "1", "-", "5">>,
   <<"2", "0", "2", "4", "-", "0", "2", "-", "3", "0">>,
   <<"y", "e", "s">>,
   <<" ", "Y", "e", "s", " ">>}

Events == {Typed(l) : l \in Lines} \cup {Interrupted(e) : e \in Interrupts}

\* The bounds the getters are called with: none, one or both; the bounds
\* of get_float are in tenths, those of get_string are lengths.
Ranges ==
  [get_int |-> {<<None, None>>, <<Some(1), Some(10)>>, <<Some(1), None>>,
                <<None, Some(10)>>, <<Some(0), Some(5)>>},
   get_float |-> {<<None, None>>, <<Some(0), Some(1000)>>, <<Some(0), None>>},
   get_string |-> {<<None, None>>, <<Some(1), Some(3)>>, <<Some(1), None>>},
   get_date |-> {<<None, None>>}]

\* A getter is called.
Ask(getter, min_value, max_value) ==
  /\ ask.pc = "idle"
  /\ ask' = [NotAsking EXCEPT !.pc = "asking", !.getter = getter,
                              !.min = min_value, !.max = max_value]
  /\ UNCHANGED <<schema, store, last, created, front, work, before>>

\* input() returns or raises, and the getter's loop makes one pass.
Hear(e) ==
  /\ ask.pc = "asking"
  /\ Len(ask.heard) < MaxTyped
  /\ LET r == Pass(ask.getter, e, ask.min, ask.max)
     IN ask' = [ask EXCEPT
          !.pc = IF r.returned THEN "returned" ELSE "asking",
          !.heard = Append(@, e),
          !.printed = IF r.returned THEN @ ELSE Append(@, r.printed),
          !.value = r.value,
          !.raised = r.raised]
  /\ UNCHANGED <<schema, store, last, created, front, work, before>>

\* The caller has the value.
Answered ==
  /\ ask.pc = "returned"
  /\ ask' = NotAsking
  /\ UNCHANGED <<schema, store, last, created, front, work, before>>

NextInput ==
  \/ \E getter \in Getters : \E r \in Ranges[getter] : Ask(getter, r[1], r[2])
  \/ \E e \in Events : Hear(e)
  \/ Answered

SpecInput == Init /\ [][NextInput]_vars

(* ---------------------------- the CLI --------------------------------- *)
\* The columns get_model_input asks for: those whose python_type is int,
\* float or str.  A Date column has python_type datetime.date, which the
\* comparison with the method datetime.datetime.date never equals, and an
\* Enum column has the enum class: both are skipped as unsupported.
CliColumns(k) ==
  Columns("db_models", k) \ ({"date", "billing_date", "start_date", "end_date"} \cup EnumCols)

\* mapper.column_attrs of the classes of db/models.py, in declaration order.
ColumnOrder(k) ==
  CASE k = "Account" -> <<"id", "name", "balance">>
    [] k = "Budget" -> <<"id", "category_id", "amount", "start_date", "end_date">>
    [] k = "Category" -> <<"id", "name", "description">>
    [] k = "RecurringExpense" -> <<"id", "name", "amount", "interval", "billing_date",
                                    "category_id", "account_id", "description">>
    [] k = "Transaction" -> <<"id", "account_id", "category_id", "name", "amount",
                               "type", "date", "description">>

\* What the user gives at the prompts for one attribute: the line typed at
\* "Update <attr>? (yes/no)" and what the getter of the value prompt
\* returns, the string 'exit' or a value of the column's type.
YES == <<"y", "e", "s">>

Entered(v) == <<v>>

ExitEntered == <<>>

UpdateLines == {<<"y", "e", "s">>, <<"n", "o">>, <<"e", "x", "i", "t">>}

\* The answers tried for a set of attributes, the yes/no prompts answered
\* with the lines given; for an attribute whose value is never asked for,
\* one answer.
RECURSIVE AnswerSets(_, _, _)
AnswerSets(k, S, lines) ==
  IF S = {} THEN {<<>>}
  ELSE LET c == CHOOSE x \in S : TRUE
           given == IF c \in CliColumns(k)
                    THEN {[update |-> u, value |-> v] :
                            u \in lines,
                            v \in {ExitEntered} \cup {Entered(x) : x \in Dom(c)}}
                    ELSE {[update |-> YES, value |-> ExitEntered]}
       IN {Override(f, Single(c, a)) : f \in AnswerSets(k, S \ {c}, lines), a \in given}

\* The lines for which update.lower() == 'yes', update being what
\* get_string returns for the line.
Wanted ==
  {l \in UpdateLines : lower(get_string(Typed(l), None, None).value.val) = YES}

\* The loop of get_model_input over the attributes still to come.
RECURSIVE Collect(_, _, _, _, _)
Collect(k, attrs, for_update, answers, input_data) ==
  IF Len(attrs) = 0 THEN input_data
  ELSE LET attr_name == Head(attrs)
           value == answers[attr_name].value
       IN IF attr_name = "id" THEN Collect(k, Tail(attrs), for_update, answers, input_data)
          ELSE IF for_update /\ answers[attr_name].update \notin Wanted
          THEN Collect(k, Tail(attrs), for_update, answers, input_data)
          ELSE IF attr_name \notin CliColumns(k)
          THEN Collect(k, Tail(attrs), for_update, answers, input_data)
          ELSE IF value = ExitEntered THEN <<>>
          ELSE Collect(k, Tail(attrs), for_update, answers,
                       Override(input_data, Single(attr_name, value[1])))

get_model_input(k, for_update, answers) ==
  Collect(k, ColumnOrder(k), for_update, answers, <<>>)

\* The attributes add_item collects, for every way to answer its prompts.
CliAddInputs(k) ==
  {Payload(get_model_input(k, FALSE, a), {}) :
     a \in AnswerSets(k, Columns("db_models", k), {YES})}

\* The attributes update_item collects, for every way to answer its prompts.
CliUpdateInputs(k) ==
  {Payload(get_model_input(k, TRUE, a), {}) :
     a \in AnswerSets(k, Columns("db_models", k), UpdateLines)}

\* The same, computed once; no attributes outside a submenu.
CliAddTable ==
  ("" :> {}) @@
  [Account |-> CliAddInputs("Account"), Budget |-> CliAddInputs("Budget"),
   Category |-> CliAddInputs("Category"),
   RecurringExpense |-> CliAddInputs("RecurringExpense"),
   Transaction |-> CliAddInputs("Transaction")]

CliUpdateTable ==
  ("" :> {}) @@
  [Account |-> CliUpdateInputs("Account"), Budget |-> CliUpdateInputs("Budget"),
   Category |-> CliUpdateInputs("Category"),
   RecurringExpense |-> CliUpdateInputs("RecurringExpense"),
   Transaction |-> CliUpdateInputs("Transaction")]

\* The lines typed at "Enter your choice: ".
MenuLines ==
  {<<"0">>, <<"1">>, <<"2">>, <<"3">>, <<"4">>, <<"5">>, <<"7">>, <<"e", "x", "i", "t">>, <<"Q", "u", "i", "t">>, <<"a", "b", "c">>}

\* choice = get_int("Enter your choice: ", min_value=0, max_value=n), for a
\* line the getter returns on.
MenuChoice(l, n) == get_int(Typed(l), Some(0), Some(n))

\* choice == 0 or is_exit_command(str(choice)): str of an int is its digits,
\* which are no exit command.
Breaks(choice) ==
  \/ choice.is = "int" /\ choice.val = 0
  \/ choice.is = "str" /\ is_exit_command(choice.val)

\* The lines that end the loop of a menu of n entries, and those that pick
\* entry j of it; on every other line get_int asks again.
BreakLines(n) ==
  {l \in MenuLines : MenuChoice(l, n).returned /\ Breaks(MenuChoice(l, n).value)}

PickLines(n, j) ==
  {l \in MenuLines : /\ MenuChoice(l, n).returned
                     /\ ~Breaks(MenuChoice(l, n).value)
                     /\ MenuChoice(l, n).value.val = j}

\* process_main_menu_choice
menu_actions == <<"Account", "Budget", "Category", "RecurringExpense", "Transaction">>

\* manage_model
model_actions == <<"view", "add", "update", "delete">>

\* The lines typed at "Are you sure you want to delete this item? (yes/no)",
\* and those for which confirm.lower() == 'yes', confirm being what
\* get_string returns for the line.
ConfirmLines ==
  {<<"y", "e", "s">>, <<" ", "Y", "e", "s", " ">>, <<"Y", "E", "S">>, <<"n", "o">>, <<"y">>, <<>>, <<"e", "x", "i", "t">>}

\* A confirmation that takes every answer but no for a yes.
ConfirmedUnlessNo == ConfirmLines \ {<<"n", "o">>}

Confirmed ==
  {l \in ConfirmLines : lower(get_string(Typed(l), None, None).value.val) = YES}

\* The block of a menu action has ended: by return, or by an exception.
Leaving(how) == [cli EXCEPT !.pc = "leave", !.item = None, !.how = how]

\* run: a choice of 1..5 at the main menu opens the submenu of a kind.
CliChoose(k) ==
  /\ schema = "db_models"
  /\ cli.pc = "main"
  /\ \E j \in 1..5 : menu_actions[j] = k /\ PickLines(5, j) # {}
  /\ cli' = AtMenu("sub", k)
  /\ UNCHANGED <<schema, store, last, created, http, gen, open, conc>>

\* run: choice 0 or an exit command ends the loop.
CliQuit ==
  /\ schema = "db_models"
  /\ cli.pc = "main"
  /\ BreakLines(5) # {}
  /\ cli' = AtMenu("ended", "")
  /\ UNCHANGED <<schema, store, last, created, http, gen, open, conc>>

\* process_sub_menu_choice: choice 0 or an exit command goes back to the
\* main menu.
CliBack ==
  /\ cli.pc = "sub"
  /\ BreakLines(4) # {}
  /\ cli' = AtMenu("main", "")
  /\ UNCHANGED <<schema, store, last, created, http, gen, open, conc>>

\* manage_model: the action is chosen; update_item and delete_item ask for
\* the id and view_items asks nothing, and with self.Session() as session
\* opens the session; add_item asks for the attributes first.
CliEnter(op, i) ==
  /\ cli.pc = "sub"
  /\ \E j \in 1..4 : model_actions[j] = op /\ PickLines(4, j) # {}
  /\ op = "add" => TotalRows(store) < MaxRows
  /\ cli' = [pc |-> IF op = "add" THEN "prompt" ELSE "with", op |-> op, kind |-> cli.kind,
             id |-> IF op \in {"update", "delete"} THEN i ELSE 0, item |-> None, how |-> ""]
  /\ open' = [open EXCEPT !["cli"] = (op # "add")]
  /\ UNCHANGED <<schema, store, last, created, http, gen, conc>>

\* view_items
CliView ==
  /\ cli.pc = "with" /\ cli.op = "view"
  /\ \E r \in GetAllResults(schema, store, cli.kind, 1, MaxPage) :
       cli' = Leaving(IF r.outcome = "ok" THEN "return" ELSE "raise")
  /\ UNCHANGED <<schema, store, last, created, http, gen, open, conc>>

\* add_item after its prompts: when no attribute was collected it prints
\* "Cancelling addition" and returns to the submenu, no session opened and
\* no call made; otherwise the session is opened and BaseOperations.create
\* is called in it.
CliAddResults(F) ==
  IF Keys(F) = {} THEN {[store |-> store, how |-> "cancel", call |-> ""]}
  ELSE {[store |-> r.store, how |-> IF r.outcome = "ok" THEN "return" ELSE "raise",
         call |-> "create"] : r \in CreateResults(schema, store, cli.kind, F)}

CliAdd(F) ==
  /\ cli.pc = "prompt" /\ cli.op = "add"
  /\ TotalRows(store) < MaxRows
  /\ \E r \in CliAddResults(F) :
       /\ store' = r.store
       /\ open' = [open EXCEPT !["cli"] = (r.call # "")]
       /\ cli' = IF r.call = "" THEN AtMenu("sub", cli.kind) ELSE Leaving(r.how)
  /\ UNCHANGED <<schema, last, created, http, gen, conc>>

\* update_item and delete_item: item = BaseOperations.read(...), found
\* (the action goes on to its prompts), not found, or raising.
CliRead ==
  /\ cli.pc = "with" /\ cli.op \in {"update", "delete"}
  /\ \E r \in ReadResults(schema, store, cli.kind, cli.id) :
       cli' = IF r.outcome # "ok" THEN Leaving("raise")
              ELSE IF r.returned = "None" THEN Leaving("return")
              ELSE [cli EXCEPT !.pc = "loaded", !.item = r.result]
  /\ UNCHANGED <<schema, store, last, created, http, gen, open, conc>>

\* update_item after its prompts: no call when no attribute was collected;
\* otherwise BaseOperations.update in the session that read the item, and
\* format_item of what it returned, which raises when the row is gone.
CliUpdateResults(F) ==
  IF Keys(F) = {} THEN {[store |-> store, how |-> "return", call |-> ""]}
  ELSE {[store |-> r.store,
         how |-> IF r.outcome = "ok" /\ r.result["id"] \in DOMAIN r.store[cli.kind]
                 THEN "return" ELSE "raise",
         call |-> "update"] :
          r \in {CommitLoaded(schema, store, cli.kind, cli.id, cli.item, F),
                 Unavailable(store)}}

CliUpdate(F) ==
  /\ cli.pc = "loaded" /\ cli.op = "update"
  /\ \E r \in CliUpdateResults(F) :
       /\ store' = r.store
       /\ cli' = Leaving(r.how)
  /\ UNCHANGED <<schema, last, created, http, gen, open, conc>>

\* delete_item after its prompt: no call unless the answer is yes;
\* otherwise BaseOperations.delete in the session that read the item, its
\* result ignored.
CliDeleteResults(confirm) ==
  IF confirm \notin Confirmed THEN {[store |-> store, how |-> "return"]}
  ELSE {[store |-> r.store, how |-> IF r.outcome = "ok" THEN "return" ELSE "raise"] :
          r \in {DeleteLoaded(schema, store, cli.kind, cli.id), Unavailable(store)}}

CliDelete(confirm) ==
  /\ cli.pc = "loaded" /\ cli.op = "delete"
  /\ \E r \in CliDeleteResults(confirm) :
       /\ store' = r.store
       /\ cli' = Leaving(r.how)
  /\ UNCHANGED <<schema, last, created, http, gen, open, conc>>

\* A with block that closes the session on return only.
CliLeaveOpen ==
  /\ cli.pc = "leave"
  /\ open' = [open EXCEPT !["cli"] = (cli.how # "return")]
  /\ cli' = IF cli.how = "return" \/ cli.op = "add" THEN AtMenu("sub", cli.kind)
            ELSE [AtMenu("crashed", "") EXCEPT !.op = cli.op]
  /\ UNCHANGED <<schema, store, last, created, http, gen, conc>>

\* The with block is left and the session closed.  add_item catches the
\* exception and prints it; from the other actions it leaves run, and
\* main.py logs it and the process ends.
CliLeave ==
  /\ cli.pc = "leave"
  /\ open' = [open EXCEPT !["cli"] = FALSE]
  /\ cli' = IF cli.how = "return" \/ cli.op = "add" THEN AtMenu("sub", cli.kind)
            ELSE [AtMenu("crashed", "") EXCEPT !.op = cli.op]
  /\ UNCHANGED <<schema, store, last, created, http, gen, conc>>

(* ---------------------------- the boundary ---------------------------- *)
Methods == {"GET", "POST", "PUT", "DELETE", "LIST"}

CliOps == {"view", "add", "update", "delete"}

\* Another client's delete of a stored row goes through while the handlers
\* and the menu run.
OtherDelete(k, i) ==
  /\ i \in DOMAIN store[k]
  /\ Apply(DeleteResult(schema, store, k, i))
  /\ UNCHANGED <<last, created, front, conc>>

\* The handlers, the generator, the CLI, and a second client that deletes
\* while they run.
NextBoundary ==
  \/ HttpEnter
  \/ \E method \in Methods : \E k \in Kinds(schema) : \E i \in Ids :
       \E F \in HttpBodies(method, k, i) : HttpHandle(method, k, i, F)
  \/ HttpExit
  \/ GetDbNext
  \/ GetDbClose
  \/ \E k \in Kinds(schema) : CliChoose(k)
  \/ CliQuit
  \/ CliBack
  \/ \E op \in CliOps : \E i \in Ids : CliEnter(op, i)
  \/ CliView
  \/ \E F \in CliAddTable[cli.kind] : CliAdd(F)
  \/ CliRead
  \/ \E F \in CliUpdateTable[cli.kind] : CliUpdate(F)
  \/ \E confirm \in ConfirmLines : CliDelete(confirm)
  \/ CliLeave
  \/ \E k \in Kinds(schema) : \E i \in Ids : OtherDelete(k, i)

SpecBoundary == Init /\ [][NextBoundary]_vars

\* A step inside a handler's block and a step inside a menu action's block:
\* one request and one answer to each prompt are named, which is enabled
\* whenever any is, so that fairness on it says the block runs on.
HttpStep ==
  \/ \E k \in Kinds(schema) : HttpHandle("GET", k, 1, NoFields)
  \/ HttpExit

CliStep ==
  \/ CliView
  \/ CliAdd(NoFields)
  \/ CliRead
  \/ CliUpdate(NoFields)
  \/ CliDelete(<<"n", "o">>)
  \/ CliLeave

\* A block that was entered runs on: the view function and the menu action
\* are straight-line code (the user answering the prompts of update_item
\* and delete_item), and the generator is finalised when its caller is done
\* with it.
SpecBoundaryFair ==
  SpecBoundary /\ WF_vars(HttpStep) /\ WF_vars(CliStep) /\ WF_vars(GetDbClose)

(* ---------------------------- two sessions ---------------------------- *)
\* The rows stored before the two sessions run: every column given a
\* value, the foreign keys naming row 1.
PopulatePayloads(sch, k) ==
  {Payload(f, {}) : f \in {g \in Assignments(Columns(sch, k)) :
                             \A c \in DOMAIN ForeignKeys(sch, k) : g[c] = 1}}

\* The keyword sets the two sessions pass to update: over a first column
\* (description, else amount or balance) and a second, nullable one (a date,
\* else category_id), one of them or both, each with a value or None.
ConcurrentPayloads(sch, k) ==
  LET cols == Columns(sch, k)
      first == IF "description" \in cols THEN {"description"}
               ELSE cols \cap {"amount", "balance"}
      free == (cols \ NotNullCols(sch, k)) \ first
      second == IF "start_date" \in free THEN {"start_date"}
                ELSE IF "billing_date" \in free THEN {"billing_date"}
                ELSE free \cap {"category_id"}
      value(c) == IF c \in DOMAIN ForeignKeys(sch, k) THEN 1 ELSE CHOOSE v \in Dom(c) : TRUE
      one(c) == {Payload(Single(c, value(c)), {}), Payload(<<>>, {c})}
      both(F, G) == Payload(Override(F.vals, G.vals), F.nulls \cup G.nulls)
  IN UNION {one(c) : c \in first \cup second}
     \cup UNION {{both(F, G) : F \in one(c), G \in one(d)} : c \in first, d \in second}

PopulateInputs == [sch \in Schemas |-> [k \in AllKinds |-> PopulatePayloads(sch, k)]]

ConcurrentInputs == [sch \in Schemas |-> [k \in AllKinds |-> ConcurrentPayloads(sch, k)]]

\* The other session.
Other(w) == CHOOSE v \in Workers : v # w

\* Rows are stored while no session is inside a call.
Populate(k, F) ==
  /\ \A w \in Workers : work[w].pc = "idle"
  /\ Create(k, F)
  /\ UNCHANGED <<last, created, front, conc>>

\* instance = db.query(model_class).filter(model_class.id == instance_id)
\* .first() in the session of w, for an update or a delete of the row the
\* other session works on; a missing row ends the call (None, False).
Load(w, op, k, i, F) ==
  /\ work[w].pc = "idle"
  /\ w = 2 => work[1].pc # "idle"
  /\ LET v == work[Other(w)] IN v.pc # "idle" => v.kind = k /\ v.id = i
  /\ i \in DOMAIN (IF work[Other(w)].pc = "idle" THEN store ELSE before)[k]
  /\ work' = [work EXCEPT ![w] =
       [pc |-> IF First(store, k, i) = None THEN "done" ELSE "loaded",
        op |-> op, kind |-> k, id |-> i, item |-> First(store, k, i),
        data |-> IF op = "update" THEN F ELSE NoFields,
        outcome |-> IF First(store, k, i) = None THEN "ok" ELSE ""]]
  /\ before' = IF work[Other(w)].pc = "idle" THEN store ELSE before
  /\ UNCHANGED <<schema, store, last, created, front, ask>>

\* The rest of the call in the session of w: setattr and db.commit(), or
\* db.delete(instance) and db.commit().
Commit(w) ==
  /\ work[w].pc = "loaded"
  /\ LET v == work[w]
         r == IF v.op = "update"
              THEN CommitLoaded(schema, store, v.kind, v.id, v.item, v.data)
              ELSE DeleteLoaded(schema, store, v.kind, v.id)
     IN /\ store' = r.store
        /\ work' = [work EXCEPT ![w].pc = "done", ![w].outcome = r.outcome]
  /\ UNCHANGED <<schema, last, created, front, before, ask>>

\* Both calls have returned.
Return ==
  /\ \A w \in Workers : work[w].pc = "done"
  /\ work' = [w \in Workers |-> Idle]
  /\ before' = store
  /\ UNCHANGED <<schema, store, last, created, front, ask>>

NextConcurrent ==
  \/ \E k \in Kinds(schema) : \E F \in PopulateInputs[schema][k] : Populate(k, F)
  \/ \E w \in Workers : \E op \in {"update", "delete"} : \E k \in Kinds(schema) :
       \E i \in Ids : \E F \in ConcurrentInputs[schema][k] : Load(w, op, k, i, F)
  \/ \E w \in Workers : Commit(w)
  \/ Return

SpecConcurrent == Init /\ [][NextConcurrent]_vars

(* ---------------------------- C1 --------------------------------------- *)
\* C1: a record reads back as the row its create call asked for (the values
\* passed, defaults for the columns left out, the key create returned) for as
\* long as no update or delete names its key.
C1_CreateThenRead ==
  \A k \in Kinds(schema) : \A i \in DOMAIN created[k] :
    ReadResult(schema, store, k, i).result = created[k][i]


(* ---------------------------- C2 --------------------------------------- *)
\* C2 as stated: delete of every present id returns True and removes the row.
C2_DeletePresentReturnsTrue ==
  \A k \in Kinds(schema) : \A i \in DOMAIN store[k] :
    LET r == DeleteResult(schema, store, k, i)
    IN r.returned = "True" /\ i \notin DOMAIN r.store[k]

\* Some stored row names row i of table k through a foreign key declared
\* nullable=False.
Blocked(sch, s, k, i) ==
  \E ck \in Kinds(sch) : \E j \in DOMAIN s[ck] :
    \E c \in DOMAIN ForeignKeys(sch, ck) \cap DOMAIN s[ck][j] \cap NotNullCols(sch, ck) :
      ForeignKeys(sch, ck)[c] = k /\ s[ck][j][c] = i

\* C2: delete of a present id raises IntegrityError and changes nothing when
\* a stored row names the id through a NOT NULL foreign key; otherwise it
\* returns True and the id then reads as None.  An absent id stays absent
\* until a create is assigned it or an update moves a row of the table to it.
C2_DeleteThenAbsent ==
  /\ [](\A k \in Kinds(schema) : \A i \in DOMAIN store[k] :
          LET r == DeleteResult(schema, store, k, i) IN
          IF Blocked(schema, store, k, i)
          THEN r.outcome = "IntegrityError" /\ r.store = store
          ELSE /\ r.returned = "True" /\ r.result = TRUE
               /\ ReadResult(schema, r.store, k, i).returned = "None")
  /\ [][\A k \in Kinds(schema) : \A i \in Ids \ DOMAIN store[k] :
          i \in DOMAIN store'[k] =>
            \/ /\ DOMAIN store'[k] = DOMAIN store[k] \cup {i}
               /\ \A j \in DOMAIN store[k] : store'[k][j] = store[k][j]
            \/ \E j \in DOMAIN store[k] :
                 /\ DOMAIN store'[k] = (DOMAIN store[k] \ {j}) \cup {i}
                 /\ store'[k][i] = Override(store[k][j], Single("id", i))]_vars

\* C2 witness: one stored row cannot be deleted, another can, and a key
\* below a stored one is free again.
C2_Witness ==
  /\ \E k \in Kinds(schema) : \E i \in DOMAIN store[k] : Blocked(schema, store, k, i)
  /\ \E k \in Kinds(schema) : \E i \in DOMAIN store[k] :
       DeleteResult(schema, store, k, i).returned = "True"
  /\ \E k \in Kinds(schema) : 1 \notin DOMAIN store[k] /\ 2 \in DOMAIN store[k]

(* ---------------------------- C3 --------------------------------------- *)
\* C3: for an id that is not stored, the engine answering, read returns
\* None, update returns None whatever the fields, delete returns False; none
\* raises and none changes a table.
C3_AbsentIdIsNotFound ==
  \A k \in Kinds(schema) : \A i \in Ids \ DOMAIN store[k] :
    /\ LET r == ReadResult(schema, store, k, i)
       IN r.outcome = "ok" /\ r.returned = "None" /\ r.result = None /\ r.store = store
    /\ \A F \in UpdateTable[schema][k] :
         LET r == UpdateResult(schema, store, k, i, F)
         IN r.outcome = "ok" /\ r.returned = "None" /\ r.result = None /\ r.store = store
    /\ LET r == DeleteResult(schema, store, k, i)
       IN r.outcome = "ok" /\ r.returned = "False" /\ r.store = store

\* C3 witness: a table holds one key and lacks another, and the other
\* tables hold a row too.
C3_Witness ==
  \E k \in Kinds(schema) :
    /\ DOMAIN store[k] # {} /\ Ids \ DOMAIN store[k] # {}
    /\ TotalRows(store) = MaxRows

C5_EmptyUpdate ==
  \A k \in Kinds(schema) : \A i \in DOMAIN store[k] :
    LET r == UpdateResult(schema, store, k, i, NoFields)
    IN r.returned = "row" /\ r.result = store[k][i] /\ r.store = store

\* C5 witness: a stored record with a column that is NULL and a column that
\* has a declared default.
C5_Witness ==
  \E k \in Kinds(schema) : \E i \in DOMAIN store[k] :
    /\ Columns(schema, k) \ DOMAIN store[k][i] # {}
    /\ DOMAIN Defaults(schema, k) # {}
    /\ UpdateResult(schema, store, k, i, NoFields).outcome = "ok"

(* ---------------------------- C6 --------------------------------------- *)
\* C6: a create, update or delete that raises leaves every table as it was
\* before the call.
C6_AllOrNothing ==
  [][last'.op \in {"create", "update", "delete"} /\ last'.outcome # "ok"
       => store' = store]_vars

(* ---------------------------- C7 --------------------------------------- *)
\* Columns a create call has to give a value: NOT NULL without a default.
Required(sch, k) == NotNullCols(sch, k) \ DOMAIN Defaults(sch, k)

\* The payload names, through a foreign key, a row that is not stored.
Dangling(sch, s, k, F) ==
  \E c \in DOMAIN ForeignKeys(sch, k) \cap DOMAIN F.vals :
    F.vals[c] \notin DOMAIN s[ForeignKeys(sch, k)[c]]

\* The payload leaves out, or passes None for, a required column.
Missing(sch, k, F) == ~(Required(sch, k) \subseteq DOMAIN F.vals)

\* The constructor and the enum types take the payload.
WellFormed(sch, k, F) ==
  /\ Keys(F) \subseteq Columns(sch, k) \cup {"id"}
  /\ EnumsOK(sch, Construct(sch, k, F))

\* C7: a create whose payload has a dangling foreign key or misses a
\* required column is answered with IntegrityError and stores no row; the
\* other failures (a keyword the class lacks, a name the enum lacks, an
\* unreachable engine) raise other classes; a create that returns has
\* inserted exactly the returned row.
C7_CreateConstraint ==
  \A k \in Kinds(schema) : \A F \in CreateInputs[schema][k] :
    LET R == CreateResults(schema, store, k, F)
        bad == Dangling(schema, store, k, F) \/ Missing(schema, k, F)
    IN /\ WellFormed(schema, k, F) /\ bad =>
            /\ \A r \in CreateResult(schema, store, k, F) : r.outcome = "IntegrityError"
            /\ \A r \in R : r.store = store /\ r.outcome \in {"IntegrityError", "OperationalError"}
       /\ \A r \in R :
            r.outcome = "IntegrityError" =>
              /\ WellFormed(schema, k, F)
              /\ bad \/ ("id" \in DOMAIN F.vals /\ F.vals["id"] \in DOMAIN store[k])
       /\ \A r \in R :
            r.outcome = "ok" =>
              /\ r.result["id"] \notin DOMAIN store[k]
              /\ r.store = Put(store, k, r.result)
              /\ TotalRows(r.store) = TotalRows(store) + 1

\* C7 witness: with a row stored, one payload of a kind is inserted, another
\* names a missing parent and a third leaves a required column out.
C7_Witness ==
  /\ TotalRows(store) > 0
  /\ \E k \in Kinds(schema) :
       /\ \E F \in CreateInputs[schema][k] :
            \E r \in CreateResult(schema, store, k, F) : r.outcome = "ok"
       /\ \E F \in CreateInputs[schema][k] :
            WellFormed(schema, k, F) /\ Dangling(schema, store, k, F)
              /\ ~Missing(schema, k, F)
       /\ \E F \in CreateInputs[schema][k] :
            WellFormed(schema, k, F) /\ Missing(schema, k, F)
              /\ ~Dangling(schema, store, k, F)

(* ---------------------------- C8 --------------------------------------- *)
\* Row i of table k is named by a foreign key of some stored row.
Referenced(sch, s, k, i) ==
  \E ck \in Kinds(sch) : \E j \in DOMAIN s[ck] :
    \E c \in DOMAIN ForeignKeys(sch, ck) \cap DOMAIN s[ck][j] :
      ForeignKeys(sch, ck)[c] = k /\ s[ck][j][c] = i

\* The step just taken is delete(k, i), answered by the engine.
DeleteStep(k, i) ==
  /\ last'.op = "delete"
  /\ LET r == DeleteResult(schema, store, k, i)
     IN store' = r.store /\ last'.outcome = r.outcome /\ last'.returned = r.returned

\* C8: delete of a row that a foreign key of a stored row still names raises
\* IntegrityError and the row stays.
C8_ReferencedDeleteRaises ==
  [][\A k \in Kinds(schema) : \A i \in DOMAIN store[k] :
       Referenced(schema, store, k, i) /\ DeleteStep(k, i)
         => last'.outcome = "IntegrityError" /\ i \in DOMAIN store'[k]]_vars

(* ---------------------------- C9 --------------------------------------- *)
\* C9: every stored Budget's category_id and every stored Transaction's
\* account_id and category_id holds the key of a stored row.
C9_ForeignKeysName ==
  \A k \in {"Budget", "Transaction"} : \A i \in DOMAIN store[k] :
    \A c \in DOMAIN ForeignKeys(schema, k) :
      /\ c \in DOMAIN store[k][i]
      /\ store[k][i][c] \in DOMAIN store[ForeignKeys(schema, k)[c]]

(* ---------------------------- C10 -------------------------------------- *)
Min(a, b) == IF a <= b THEN a ELSE b

Max(a, b) == IF a >= b THEN a ELSE b

\* C10: with N rows of a kind stored, get_all returns total = N and a page
\* of min(per_page, max(0, N - (page - 1) * per_page)) records, for every
\* page >= 1 and per_page >= 1, and changes no table.
C10_PageSize ==
  \A k \in Kinds(schema) : \A page \in Pages : \A per_page \in Pages :
    \A scan \in Scans(DOMAIN store[k]) :
    LET r == GetAllResult(schema, store, k, page, per_page, scan)
        N == Cardinality(DOMAIN store[k])
    IN /\ r.returned = "page"
       /\ r.result[2] = N
       /\ Len(r.result[1]) = Min(per_page, Max(0, N - (page - 1) * per_page))
       /\ r.store = store

\* C10 witness: a table holds as many rows as a page can, so that page 2 of
\* that size is past the end and page 2 of size 1 is the last row alone.
C10_Witness ==
  \E k \in Kinds(schema) :
    /\ Cardinality(DOMAIN store[k]) = MaxPage
    /\ \A scan \in Scans(DOMAIN store[k]) :
         /\ Len(GetAllResult(schema, store, k, 2, MaxPage, scan).result[1]) = 0
         /\ Len(GetAllResult(schema, store, k, 2, 1, scan).result[1]) = 1

(* ---------------------------- C11 -------------------------------------- *)
\* The filters naming columns of the class only.
ColumnFilterTable ==
  [sch \in Schemas |-> [k \in AllKinds |->
     {f \in QueryInputs[sch][k] : DOMAIN f \subseteq Columns(sch, k) \cup {"id"}}]]

ColumnFilters(sch, k) == ColumnFilterTable[sch][k]

\* The answer r is page number page of T records cut into pages of e.
PageOf(r, page, e) ==
  /\ r.returned = "page"
  /\ Len(r.result[1]) = Min(e, Max(0, r.result[2] - (page - 1) * e))

\* C11: whatever per_page is asked for (negative, zero, larger than every
\* valid size), get_all and query answer with the page of some effective
\* page size between 1 and the largest valid size.
C11_PageSizeCapped ==
  \A k \in Kinds(schema) : \A page \in Pages : \A per_page \in PerPages :
    \A scan \in Scans(DOMAIN store[k]) :
      /\ \E e \in Pages :
           PageOf(GetAllResult(schema, store, k, page, per_page, scan), page, e)
      /\ \A f \in ColumnFilters(schema, k) : \E e \in Pages :
           PageOf(QueryResult(schema, store, k, page, per_page, f, scan), page, e)

(* ---------------------------- C12 -------------------------------------- *)
\* The primary keys of the records of a page, in the order of the page.
PageIds(r) == [n \in 1..Len(r.result[1]) |-> r.result[1][n]["id"]]

Increasing(ids) == \A a, b \in 1..Len(ids) : a < b => ids[a] < ids[b]

Before(ids, jds) == \A a \in 1..Len(ids) : \A b \in 1..Len(jds) : ids[a] < jds[b]

\* C12: the ids of a page returned by get_all or by query are strictly
\* increasing, and every id of page p is smaller than every id of page p + 1
\* of the same listing.
C12_PagesOrdered ==
  \A k \in Kinds(schema) : \A page \in Pages : \A per_page \in Pages :
    \A scan \in Scans(DOMAIN store[k]) : \A next \in Scans(DOMAIN store[k]) :
      /\ LET p == GetAllResult(schema, store, k, page, per_page, scan)
             q == GetAllResult(schema, store, k, page + 1, per_page, next)
         IN Increasing(PageIds(p)) /\ Before(PageIds(p), PageIds(q))
      /\ \A f \in ColumnFilters(schema, k) :
           LET p == QueryResult(schema, store, k, page, per_page, f, scan)
               q == QueryResult(schema, store, k, page + 1, per_page, f, next)
           IN Increasing(PageIds(p)) /\ Before(PageIds(p), PageIds(q))

(* ---------------------------- C13 -------------------------------------- *)
\* The primary keys query returns for the filters f when one page holds
\* every row.
Selected(k, f, scan) ==
  LET r == QueryResult(schema, store, k, 1, MaxRows, f, scan)
  IN {r.result[1][n]["id"] : n \in 1..Len(r.result[1])}

\* The keyword sets of query with two filters.
SeveralFilters ==
  [sch \in Schemas |-> [k \in AllKinds |->
     {f \in ColumnFilters(sch, k) : Cardinality(DOMAIN f) > 1}]]

ShapedTable ==
  [sch \in Schemas |-> [k \in AllKinds |-> [c \in Columns(sch, k) \cup {"id"} |->
     {v \in SingleFilters(sch, k, c) :
        "items" \in DOMAIN v /\ Len(v.items) = 2 /\ "s" \in DOMAIN v.items[1]
          => v.items[1].s \in Ops}]]]

Shaped(sch, k, c) == ShapedTable[sch][k][c]

IsPair(v) ==
  "items" \in DOMAIN v /\ Len(v.items) = 2 /\ "s" \in DOMAIN v.items[1]
    /\ v.items[1].s \in Ops

\* a op b for two values.
Meets(a, op, b) ==
  CASE op = ">" -> a > b
    [] op = "<" -> a < b
    [] op = ">=" -> a >= b
    [] op = "<=" -> a <= b
    [] op = "==" -> a = b
    [] op = "!=" -> a # b

\* The rows of table k whose column c has a value / has none.
With(k, c) == {i \in DOMAIN store[k] : c \in DOMAIN store[k][i]}

Without(k, c) == DOMAIN store[k] \ With(k, c)

\* The rows a filter on c selects when a column without a value is compared
\* like a value different from every literal: it is not equal to v, so it
\* satisfies (!=, v).
UsualMeaning(k, c, v) ==
  IF IsPair(v) THEN
    LET op == v.items[1].s
        it == v.items[2]
    IN IF "null" \in DOMAIN it
       THEN IF op = "==" THEN Without(k, c) ELSE With(k, c)
       ELSE {i \in With(k, c) : Meets(store[k][i][c], op, ItemValue(it))}
            \cup (IF op = "!=" THEN Without(k, c) ELSE {})
  ELSE IF "items" \in DOMAIN v THEN
    {i \in With(k, c) : \E n \in 1..Len(v.items) : store[k][i][c] = ItemValue(v.items[n])}
  ELSE IF "null" \in DOMAIN v.lit THEN Without(k, c)
  ELSE {i \in With(k, c) : store[k][i][c] = ItemValue(v.lit)}

\* The rows a filter on c selects when only rows whose c has a value are
\* compared with a literal.
AmongValues(k, c, v) ==
  IF IsPair(v) /\ "null" \notin DOMAIN v.items[2]
  THEN {i \in With(k, c) : Meets(store[k][i][c], v.items[1].s, ItemValue(v.items[2]))}
  ELSE UsualMeaning(k, c, v)

\* C14 as stated: a single filter on f selects exactly the records with
\* f = v for a literal v, with f in L for a list L, and with f op v for a
\* pair (op, v) with op one of < <= > >= == !=.
C14_SingleFilter ==
  \A k \in Kinds(schema) : \A scan \in Scans(DOMAIN store[k]) :
    \A c \in Columns(schema, k) \cup {"id"} : \A v \in Shaped(schema, k, c) :
      Selected(k, Single(c, v), scan) = UsualMeaning(k, c, v)

\* C14, amended: a single filter on f selects exactly the records whose f
\* is not NULL and has f = v, f in L or f op v; a record whose f is NULL is
\* selected by the literal None and by (==, None) only.
C14_SingleFilterOnValues ==
  \A k \in Kinds(schema) : \A scan \in Scans(DOMAIN store[k]) :
    \A c \in Columns(schema, k) \cup {"id"} : \A v \in Shaped(schema, k, c) :
      LET r == QueryResult(schema, store, k, 1, MaxRows, Single(c, v), scan)
          among == AmongValues(k, c, v)
      IN /\ r.returned = "page"
         /\ {r.result[1][n]["id"] : n \in 1..Len(r.result[1])} = among
         /\ r.result[2] = Cardinality(among)

\* An order comparison that selects one of two rows, and a != that leaves
\* out a row whose column is NULL while it selects nothing or another row.
C14_Witness ==
  \E k \in Kinds(schema) : \E c \in Columns(schema, k) : \E d \in Columns(schema, k) :
    \E scan \in Scans(DOMAIN store[k]) :
      /\ IsNumber(c)
      /\ Cardinality(Selected(k, Single(c, List(<<Str("<"), Sample(c)>>)), scan)) = 1
      /\ Cardinality(DOMAIN store[k]) = 2
      /\ Without(k, d) # {}
      /\ Selected(k, Single(d, List(<<Str("!="), Sample(d)>>)), scan) \cap Without(k, d) = {}

(* ---------------------------- C15 -------------------------------------- *)
\* The filters on column c that are a pair whose first element is a string
\* and no operator of Ops.
UnknownOperator(sch, k, c) ==
  {v \in SingleFilters(sch, k, c) :
     "items" \in DOMAIN v /\ Len(v.items) = 2 /\ "s" \in DOMAIN v.items[1]
       /\ v.items[1].s \notin Ops}

\* C15: query given a pair (operator, literal) whose operator is unknown
\* raises InvalidFilter and returns no page.
C15_UnknownOperatorRejected ==
  \A k \in Kinds(schema) : \A c \in Columns(schema, k) :
    \A v \in UnknownOperator(schema, k, c) : \A scan \in Scans(DOMAIN store[k]) :
      \A page \in Pages : \A per_page \in Pages :
        LET r == QueryResult(schema, store, k, page, per_page, Single(c, v), scan)
        IN r.outcome = "InvalidFilter" /\ r.returned # "page"

(* ---------------------------- C16 -------------------------------------- *)
\* The owner is inside the block that opened its session.
InBlock(o) ==
  CASE o = "get_db" -> gen = "yielded"
    [] o = "route" -> http.pc \in {"with", "return"}
    [] o = "cli" -> cli.pc \in {"with", "loaded", "leave"}

\* C16: a session opened by get_db, by a route handler or by a menu action
\* of the CLI is open inside the block that opened it only, and is closed
\* once the block is left, by return, by the not-found return or by an
\* exception: no session stays open for ever.
C16_SessionsClosed ==
  /\ [](\A o \in Owners : open[o] <=> InBlock(o))
  /\ \A o \in Owners : []<>(~open[o])

\* A menu action leaving its block by an exception and a yielded get_db
\* session, both still open.
C16_Witness ==
  /\ cli.pc = "leave" /\ cli.how = "raise" /\ open["cli"]
  /\ gen = "yielded" /\ open["get_db"]

\* What the call of a session leaves when it runs alone on the tables s.
Alone(s, v) ==
  IF v.op = "update" THEN UpdateResult(schema, s, v.kind, v.id, v.data).store
  ELSE DeleteResult(schema, s, v.kind, v.id).store

BothDone == \A w \in Workers : work[w].pc = "done"

\* The row both sessions worked on, None when it is gone.
Target == First(store, work[1].kind, work[1].id)

\* A session whose delete went through leaves no row, whatever the other
\* session's update does afterwards.
C17_NeverRecreated ==
  \A w \in Workers :
    work[w].pc = "done" /\ work[w].op = "delete" /\ work[w].outcome = "ok"
      => work[w].id \notin DOMAIN store[work[w].kind]

\* Two updates of different columns that both went through are both in the
\* row.
C17_DisjointBothApplied ==
  (/\ BothDone
   /\ \A w \in Workers : work[w].op = "update" /\ work[w].outcome = "ok"
   /\ Keys(work[1].data) \cap Keys(work[2].data) = {}
   /\ Target # None)
    => \A w \in Workers :
         /\ \A c \in DOMAIN work[w].data.vals :
              c \in DOMAIN Target /\ Target[c] = work[w].data.vals[c]
         /\ \A c \in work[w].data.nulls : c \notin DOMAIN Target

\* C17: when two sessions have worked on the same record at overlapping
\* times, the tables are what running the two calls one after the other, in
\* one of the two orders, leaves; an update that follows a delete of its
\* record does not bring the record back; two updates of different fields
\* are both applied.
C17_SerialOutcome ==
  /\ BothDone =>
       store \in {Alone(Alone(before, work[1]), work[2]),
                  Alone(Alone(before, work[2]), work[1])}
  /\ C17_NeverRecreated
  /\ C17_DisjointBothApplied

C17_StaleAfterDelete ==
  /\ BothDone
  /\ work[1].op = "delete" /\ work[1].outcome = "ok"
  /\ work[2].op = "update" /\ work[2].outcome = "StaleDataError"

C17_DisjointWitness ==
  /\ BothDone
  /\ \A w \in Workers : work[w].op = "update" /\ work[w].outcome = "ok"
  /\ Keys(work[1].data) \cap Keys(work[2].data) = {}
  /\ \A w \in Workers : Changed(schema, work[w].kind, work[w].item, work[w].data) # {}
  /\ work[2].item = First(before, work[2].kind, work[2].id)


\* C18: an add, update or delete action of the menu whose store call
\* raises, or whose target another client removed after the menu read it,
\* never ends the process: the menu is back at its submenu prompt.
C18_MenuSurvives == ~(cli.pc = "crashed" /\ cli.op \in {"add", "update", "delete"})

\* The part that holds: a raising add_item returns to the submenu.
C18_AddCaught ==
  [][cli.pc = "leave" /\ cli.op = "add" /\ cli.how = "raise" /\ cli' # cli
       => cli'.pc = "sub"]_vars

\* The target of update_item removed by another client after the read: the
\* update raises.
C18_TargetGone ==
  /\ cli.pc = "leave" /\ cli.op = "update" /\ cli.how = "raise"
  /\ cli.id \notin DOMAIN store[cli.kind]

\* The request bodies of a PUT on row i of table k.
PutBodies(k, i) == {Json(F) : F \in UpdateInputs(k, i)}

\* The answers to a request whose store call returned (raised nothing).
Returned(method, k, i, F) ==
  CASE method = "GET" ->
         {GetAnswer(schema, k, r) : r \in {q \in ReadResults(schema, store, k, i) : q.outcome = "ok"}}
    [] method = "PUT" ->
         {PutAnswer(schema, k, r) :
            r \in {q \in UpdateResults(schema, store, k, i, Bound(F)) : q.outcome = "ok"}}
    [] method = "DELETE" ->
         {DeleteAnswer(schema, k, r) :
            r \in {q \in DeleteResults(schema, store, k, i) : q.outcome = "ok"}}

\* C19: for every kind, when the store call returns, GET answers 200 with
\* the record if it is stored and 404 with an error body if not; PUT
\* answers 200 with the updated record, or 404; DELETE answers 204 and the
\* row is removed, or 404 when the id is absent; an answer of 404 leaves the
\* store as it was.
C19_HttpMapping ==
  schema = "models" =>
    \A k \in Kinds(schema) : \A i \in Ids :
      LET row == First(store, k, i) IN
      /\ \A a \in Returned("GET", k, i, NoFields) :
           /\ a.store = store
           /\ IF row # None THEN a.status = 200 /\ a.body = ToDict(schema, k, row)
              ELSE a.status = 404 /\ a.body = NotFound
      /\ \A F \in PutBodies(k, i) : \A a \in Returned("PUT", k, i, F) :
           IF row # None
           THEN LET new == Assign(row, Bound(F)) IN
                /\ a.status = 200
                /\ First(a.store, k, new["id"]) = new
                /\ a.body = ToDict(schema, k, new)
           ELSE a.status = 404 /\ a.body = NotFound /\ a.store = store
      /\ \A a \in Returned("DELETE", k, i, NoFields) :
           IF row # None THEN a.status = 204 /\ i \notin DOMAIN a.store[k]
           ELSE a.status = 404 /\ a.body = NotFound /\ a.store = store

\* A handler has answered 404 and another has answered 204.
C19_Witness ==
  /\ schema = "models"
  /\ http.pc = "return" /\ http.status = 404
  /\ \E k \in Kinds(schema) : \E i \in DOMAIN store[k] :
       \E a \in Returned("DELETE", k, i, NoFields) : a.status = 204

\* The request bodies of a POST for kind k: the payloads of create with the
\* dates as ISO texts; the same with the dates in the other form; the same
\* with the long amount.
IsoBodies(k) == {Json(F) : F \in CreateInputs[schema][k]}

PostBodies(k) ==
  LET loose(B) == Payload([c \in DOMAIN B.vals |->
                             IF c \in DateCols THEN LooseText ELSE B.vals[c]], B.nulls)
      long(B) == Payload([c \in DOMAIN B.vals |->
                            IF c \in FloatCols THEN LongAmount ELSE B.vals[c]], B.nulls)
  IN IsoBodies(k) \cup {loose(B) : B \in IsoBodies(k)} \cup {long(B) : B \in IsoBodies(k)}

\* The answer to POST with body F echoes F, names the new record, and the
\* GET of that record answers 200 with the same body.
Echoed(k, F) ==
  \A r \in {q \in CreateResult(schema, store, k, Bound(F)) : q.outcome = "ok"} :
    LET a == PostAnswer(schema, k, r) IN
    /\ a.status = 201
    /\ "id" \in DOMAIN a.body.vals /\ a.body.vals["id"] \in DOMAIN a.store[k]
    /\ \A c \in DOMAIN F.vals : c \in DOMAIN a.body.vals /\ a.body.vals[c] = F.vals[c]
    /\ F.nulls \subseteq a.body.nulls
    /\ LET g == GetAnswer(schema, k, ReadResult(schema, a.store, k, a.body.vals["id"]))
       IN g.status = 200 /\ g.body = a.body

\* C20: for each of the four kinds of the HTTP routes, POST with a body the
\* store accepts answers 201 with a body that echoes the supplied fields and
\* carries the new id, and a following GET of that id answers 200 with the
\* same field values.
C20_PostEchoes ==
  schema = "models" => \A k \in Kinds(schema) : \A F \in PostBodies(k) : Echoed(k, F)

\* The part that holds: bodies whose dates are ISO texts and whose amounts
\* have no more than six digits.
C20_IsoBodiesEchoed ==
  schema = "models" => \A k \in Kinds(schema) : \A F \in IsoBodies(k) : Echoed(k, F)

(* ---------------------------- C21 -------------------------------------- *)
\* What each line typed means to a reader of the prompt: whether it is the
\* word exit or quit in some letter case, whether it is so once the blanks
\* around it are removed, its text without those blanks, and the integer,
\* the number (in tenths) and the day of the calendar it writes, if any.
Meanings ==
  {[line |-> <<"5">>, exit |-> FALSE, trimmed |-> FALSE,
    text |-> <<"5">>,
    int |-> Some(5), float |-> Some(50), date |-> None],
   [line |-> <<"0">>, exit |-> FALSE, trimmed |-> FALSE,
    text |-> <<"0">>,
    int |-> Some(0), float |-> Some(0), date |-> None],
   [line |-> <<"1", "1">>, exit |-> FALSE, trimmed |-> FALSE,
    text |-> <<"1", "1">>,
    int |-> Some(11), float |-> Some(110), date |-> None],
   [line |-> <<"-", "1">>, exit |-> FALSE, trimmed |-> FALSE,
    text |-> <<"-", "1">>,
    int |-> Some(0 - 1), float |-> Some(0 - 10), date |-> None],
   [line |-> <<" ", "7", " ">>, exit |-> FALSE, trimmed |-> FALSE,
    text |-> <<"7">>,
    int |-> Some(7), float |-> Some(70), date |-> None],
   [line |-> <<"5", ".", "5">>, exit |-> FALSE, trimmed |-> FALSE,
    text |-> <<"5", ".", "5">>,
    int |-> None, float |-> Some(55), date |-> None],
   [line |-> <<"a", "b", "c">>, exit |-> FALSE, trimmed |-> FALSE,
    text |-> <<"a", "b", "c">>,
    int |-> None, float |-> None, date |-> None],
   [line |-> <<>>, exit |-> FALSE, trimmed |-> FALSE,
    text |-> <<>>,
    int |-> None, float |-> None, date |-> None],
   [line |-> <<"e", "x", "i", "t">>, exit |-> TRUE, trimmed |-> TRUE,
    text |-> <<"e", "x", "i", "t">>,
    int |-> None, float |-> None, date |-> None],
   [line |-> <<"E", "X", "I", "T">>, exit |-> TRUE, trimmed |-> TRUE,
    text |-> <<"E", "X", "I", "T">>,
    int |-> None, float |-> None, date |-> None],
   [line |-> <<"Q", "u", "i", "t">>, exit |-> TRUE, trimmed |-> TRUE,
    text |-> <<"Q", "u", "i", "t">>,
    int |-> None, float |-> None, date |-> None],
   [line |-> <<" ", "q", "u", "i", "t">>, exit |-> FALSE, trimmed |-> TRUE,
    text |-> <<"q", "u", "i", "t">>,
    int |-> None, float |-> None, date |-> None],
   [line |-> <<"2", "0", "2", "4", "-", "0", "1", "-", "0", "5">>, exit |-> FALSE, trimmed |-> FALSE,
    text |-> <<"2", "0", "2", "4", "-", "0", "1", "-", "0", "5">>,
    int |-> None, float |-> None, date |-> Some(<<2024, 1, 5>>)],
   [line |-> <<"2", "0", "2", "4", "-", "1", "-", "5">>, exit |-> FALSE, trimmed |-> FALSE,
    text |-> <<"2", "0", "2", "4", "-", "1", "-", "5">>,
    int |-> None, float |-> None, date |-> Some(<<2024, 1, 5>>)],
   [line |-> <<"2", "0", "2", "4", "-", "0", "2", "-", "3", "0">>, exit |-> FALSE, trimmed |-> FALSE,
    text |-> <<"2", "0", "2", "4", "-", "0", "2", "-", "3", "0">>,
    int |-> None, float |-> None, date |-> None],
   [line |-> <<"y", "e", "s">>, exit |-> FALSE, trimmed |-> FALSE,
    text |-> <<"y", "e", "s">>,
    int |-> None, float |-> None, date |-> None],
   [line |-> <<" ", "Y", "e", "s", " ">>, exit |-> FALSE, trimmed |-> FALSE,
    text |-> <<"Y", "e", "s">>,
    int |-> None, float |-> None, date |-> None]}

MeaningOf(l) == CHOOSE m \in Meanings : m.line = l

Within(n, min_value, max_value) ==
  /\ min_value = None \/ min_value[1] <= n
  /\ max_value = None \/ n <= max_value[1]

\* The exit command as each getter recognises it: typed exactly for get_int
\* and get_float, within blanks for get_string and get_date.
ExitFor(getter, m) ==
  IF getter \in {"get_string", "get_date"} THEN m.trimmed ELSE m.exit

\* The line writes a value of the getter's type inside the bounds.
ValueFor(getter, m, min_value, max_value) ==
  CASE getter = "get_int" -> m.int # None /\ Within(m.int[1], min_value, max_value)
    [] getter = "get_float" -> m.float # None /\ Within(m.float[1], min_value, max_value)
    [] getter = "get_string" -> Within(Len(m.text), min_value, max_value)
    [] getter = "get_date" -> m.date # None

ResultFor(getter, m) ==
  CASE getter = "get_int" -> IntValue(m.int[1])
    [] getter = "get_float" -> FloatValue(m.float[1])
    [] getter = "get_string" -> StrValue(m.text)
    [] getter = "get_date" -> DateValue(m.date[1])

\* The getter has returned `expected' for the first event that `accepted'
\* holds of, and has printed a message for every event before it; while it
\* has not returned, it has heard no such event.
FirstAccepted(accepted(_), expected(_)) ==
  LET n == Len(ask.heard)
  IN /\ ask.pc = "asking" =>
          /\ \A i \in 1..n : ~accepted(ask.heard[i])
          /\ Len(ask.printed) = n
     /\ ask.pc = "returned" =>
          /\ n >= 1 /\ accepted(ask.heard[n])
          /\ ask.value = expected(ask.heard[n])
          /\ \A i \in 1..(n - 1) : ~accepted(ask.heard[i])
          /\ Len(ask.printed) = n - 1

\* The value returned is the string 'exit' or lies inside the bounds.
NeverOutside ==
  ask.pc = "returned" =>
    \/ ask.value = StrValue(ExitText)
    \/ /\ ask.value.is \in {"int", "float"}
       /\ Within(ask.value.val, ask.min, ask.max)
    \/ /\ ask.value.is = "str"
       /\ Within(Len(ask.value.val), ask.min, ask.max)

\* C21 as stated: get_int, get_float and get_string alike return at the first
\* line that is exit or quit in any letter case (giving 'exit') or writes a
\* value inside the bounds (giving that value), reject every line before
\* it, and never return a value outside the bounds.
C21_FirstValid ==
  ask.getter \in {"get_int", "get_float", "get_string"} =>
    /\ FirstAccepted(
         LAMBDA e : /\ e.raised = ""
                    /\ \/ MeaningOf(e.line).exit
                       \/ ValueFor(ask.getter, MeaningOf(e.line), ask.min, ask.max),
         LAMBDA e : IF MeaningOf(e.line).exit THEN StrValue(ExitText)
                    ELSE ResultFor(ask.getter, MeaningOf(e.line)))
    /\ NeverOutside

\* C21 (amended): the same, where the exit command is exit or quit typed
\* exactly for get_int and get_float and typed within blanks for get_string,
\* and the value of get_string is the text without the blanks around it,
\* its length inside the bounds.
C21_FirstValidPerGetter ==
  ask.getter \in {"get_int", "get_float", "get_string"} =>
    /\ FirstAccepted(
         LAMBDA e : /\ e.raised = ""
                    /\ \/ ExitFor(ask.getter, MeaningOf(e.line))
                       \/ ValueFor(ask.getter, MeaningOf(e.line), ask.min, ask.max),
         LAMBDA e : IF ExitFor(ask.getter, MeaningOf(e.line)) THEN StrValue(ExitText)
                    ELSE ResultFor(ask.getter, MeaningOf(e.line)))
    /\ NeverOutside

\* get_int has rejected a line outside its bounds and one that is no
\* integer, and has returned the integer typed third.
C21_Witness ==
  /\ ask.pc = "returned" /\ ask.getter = "get_int"
  /\ ask.min = Some(1) /\ ask.max = Some(10)
  /\ ask.printed = <<RangeMessage, InvalidMessage>>
  /\ ask.value = IntValue(7)

(* ---------------------------- C22 -------------------------------------- *)
\* C22: an EOFError or KeyboardInterrupt raised by input() never leaves a
\* getter (get_int, get_float, get_string, get_date): the getter prints the
\* 'Input interrupted' message for it and asks again, and a valid line typed
\* next is returned with its value.
C22_InterruptRetried ==
  LET n == Len(ask.heard)
      valid(e) == /\ e.raised = ""
                  /\ \/ ExitFor(ask.getter, MeaningOf(e.line))
                     \/ ValueFor(ask.getter, MeaningOf(e.line), ask.min, ask.max)
      expected(e) == IF ExitFor(ask.getter, MeaningOf(e.line)) THEN StrValue(ExitText)
                     ELSE ResultFor(ask.getter, MeaningOf(e.line))
  IN /\ ask.raised = ""
     /\ \A i \in 1..n : ask.heard[i].raised \in Interrupts =>
          /\ i <= Len(ask.printed) /\ ask.printed[i] = InterruptedMessage
          /\ i < n /\ valid(ask.heard[i + 1]) =>
               /\ ask.pc = "returned" /\ n = i + 1
               /\ ask.value = expected(ask.heard[n])

\* get_date was interrupted by Ctrl-C, then by the end of the input, and
\* has then returned the day typed.
C22_Witness ==
  /\ ask.pc = "returned" /\ ask.getter = "get_date"
  /\ Len(ask.heard) = 3
  /\ ask.heard[1] = Interrupted("KeyboardInterrupt")
  /\ ask.heard[2] = Interrupted("EOFError")
  /\ ask.printed = <<InterruptedMessage, InterruptedMessage>>
  /\ ask.value = DateValue(<<2024, 1, 5>>)

(* ---------------------------- C23 -------------------------------------- *)
\* The process has ended.
Terminated(c) == c.pc \in {"ended", "crashed"}

\* C23: the menu is a two-level loop.  The process ends from the main menu
\* only (on 0 or an exit command); a step from the submenu prompt goes to
\* the main menu or into an action of that submenu, never out of the
\* application; and when an action is over the same submenu is shown again.
C23_TwoLevelLoop ==
  [][cli' # cli =>
       /\ Terminated(cli') => cli.pc = "main" /\ cli'.pc = "ended"
       /\ cli.pc = "sub" =>
            \/ cli' = AtMenu("main", "")
            \/ cli' = AtMenu("sub", cli.kind)
            \/ cli'.pc \in {"prompt", "with"} /\ cli'.kind = cli.kind
       /\ cli.pc = "leave" => cli' = AtMenu("sub", cli.kind)]_vars

\* The part that holds: the loops themselves.  The lines that end a menu
\* are 0 and the exit commands, the process ends from the main menu or from
\* an action that raised, the submenu prompt leads to the main menu or into
\* an action, and an action that returned, or an add_item that raised,
\* leads back to its submenu.
C23_LoopsUnlessRaised ==
  /\ BreakLines(5) = {<<"0">>, <<"e", "x", "i", "t">>, <<"Q", "u", "i", "t">>}
  /\ BreakLines(4) = BreakLines(5)
  /\ [][cli' # cli =>
          /\ Terminated(cli') =>
               \/ cli.pc = "main" /\ cli'.pc = "ended"
               \/ cli.pc = "leave" /\ cli.how = "raise" /\ cli.op # "add"
          /\ cli.pc = "sub" =>
               \/ cli' = AtMenu("main", "")
               \/ cli' = AtMenu("sub", cli.kind)
               \/ cli'.pc \in {"prompt", "with"} /\ cli'.kind = cli.kind
          /\ cli.pc = "leave" /\ (cli.how = "return" \/ cli.op = "add") =>
               cli' = AtMenu("sub", cli.kind)]_vars

(* ---------------------------- C24 -------------------------------------- *)
\* C24: for each kind of the menu, a user of the add action who answers
\* every prompt with a valid value has given every column other than id, of
\* whatever type, and the record is created (the database being reachable
\* and the rows it refers to being stored).
C24_EveryFieldPrompted ==
  cli.pc = "prompt" =>
    \A F \in CliAddTable[cli.kind] \ {NoFields} :
      /\ Keys(F) = Columns("db_models", cli.kind)
      /\ (\A c \in DOMAIN ForeignKeys(schema, cli.kind) \cap DOMAIN F.vals :
            F.vals[c] \in DOMAIN store[ForeignKeys(schema, cli.kind)[c]])
           => \E r \in CreateResults(schema, store, cli.kind, F) : r.outcome = "ok"

\* What holds instead: the int, float and str columns are asked for and the
\* Date and Enum columns are not, so that an Account and a Category are
\* created with every column, a Budget without its dates, and a
\* Transaction or a RecurringExpense never.
C24_TypedColumnsOnly ==
  /\ cli.pc = "prompt" =>
       \A F \in CliAddTable[cli.kind] \ {NoFields} :
         /\ Keys(F) = Columns("db_models", cli.kind)
                        \ ({"date", "billing_date", "start_date", "end_date"} \cup EnumCols)
         /\ cli.kind \in {"Account", "Category"} => Keys(F) = Columns("db_models", cli.kind)
         /\ cli.kind \in {"Transaction", "RecurringExpense"} =>
              \A r \in CreateResults(schema, store, cli.kind, F) : r.outcome # "ok"
  /\ schema = "db_models" =>
       /\ store["Transaction"] = <<>> /\ store["RecurringExpense"] = <<>>
       /\ \A i \in DOMAIN store["Budget"] : "start_date" \notin DOMAIN store["Budget"][i]

(* ---------------------------- C29 -------------------------------------- *)
\* The answers that say yes, in whatever letter case and with or without
\* blanks around the word.
SaysYes == {<<"y", "e", "s">>, <<"Y", "E", "S">>, <<" ", "Y", "e", "s", " ">>}

\* C29: the delete action of the menu changes the tables only at its
\* confirmation, only when the answer is yes and the record it read is
\* stored, and then by removing that record: after every other answer (an
\* exit command among them), and for an id that was not found, the tables
\* are as they were.
C29_DeleteOnlyConfirmed ==
  /\ [](cli.op = "delete" /\ cli.pc = "loaded" =>
          \A l \in ConfirmLines : \A r \in CliDeleteResults(l) :
            /\ l \notin SaysYes => r.store = store
            /\ r.store # store =>
                 /\ cli.id \in DOMAIN store[cli.kind]
                 /\ \A k \in AllKinds :
                      DOMAIN r.store[k] =
                        DOMAIN store[k] \ (IF k = cli.kind THEN {cli.id} ELSE {}))
  /\ [][cli.op = "delete" /\ cli' # cli /\ store' # store =>
          cli.pc = "loaded" /\ cli.item # None]_vars

\* The delete action at its confirmation prompt, the record it read still
\* stored: yes removes it, exit leaves it.
C29_Witness ==
  /\ cli.op = "delete" /\ cli.pc = "loaded"
  /\ cli.id \in DOMAIN store[cli.kind]
  /\ \E r \in CliDeleteResults(<<"Y", "E", "S">>) : cli.id \notin DOMAIN r.store[cli.kind]
  /\ \A r \in CliDeleteResults(<<"e", "x", "i", "t">>) : r.store = store

(* ---------------------------- C30 -------------------------------------- *)
\* An exit command was typed at a prompt of get_model_input: at the yes/no
\* prompt of an attribute (when `asked' counts those prompts), or at the
\* value prompt of an attribute that is asked for.
ExitTyped(k, for_update, a, asked) ==
  \E c \in Columns("db_models", k) :
    \/ for_update /\ asked /\ a[c].update = <<"e", "x", "i", "t">>
    \/ /\ for_update => a[c].update = <<"y", "e", "s">>
       /\ c \in CliColumns(k)
       /\ a[c].value = ExitEntered

\* The attributes get_model_input returns after such an exit command.
AfterExit(k, for_update, asked) ==
  {Payload(get_model_input(k, for_update, a), {}) :
     a \in {b \in AnswerSets(k, Columns("db_models", k),
                             IF for_update THEN UpdateLines ELSE {YES}) :
              ExitTyped(k, for_update, b, asked)}}

\* The same, computed once for each action and kind.
AfterExitTable ==
  [add |->
     [Account |-> AfterExit("Account", FALSE, TRUE),
      Budget |-> AfterExit("Budget", FALSE, TRUE),
      Category |-> AfterExit("Category", FALSE, TRUE),
      RecurringExpense |-> AfterExit("RecurringExpense", FALSE, TRUE),
      Transaction |-> AfterExit("Transaction", FALSE, TRUE)],
   update |->
     [Account |-> AfterExit("Account", TRUE, TRUE),
      Budget |-> AfterExit("Budget", TRUE, TRUE),
      Category |-> AfterExit("Category", TRUE, TRUE),
      RecurringExpense |-> AfterExit("RecurringExpense", TRUE, TRUE),
      Transaction |-> AfterExit("Transaction", TRUE, TRUE)]]

AfterValueExitTable ==
  [add |->
     [Account |-> AfterExit("Account", FALSE, FALSE),
      Budget |-> AfterExit("Budget", FALSE, FALSE),
      Category |-> AfterExit("Category", FALSE, FALSE),
      RecurringExpense |-> AfterExit("RecurringExpense", FALSE, FALSE),
      Transaction |-> AfterExit("Transaction", FALSE, FALSE)],
   update |->
     [Account |-> AfterExit("Account", TRUE, FALSE),
      Budget |-> AfterExit("Budget", TRUE, FALSE),
      Category |-> AfterExit("Category", TRUE, FALSE),
      RecurringExpense |-> AfterExit("RecurringExpense", TRUE, FALSE),
      Transaction |-> AfterExit("Transaction", TRUE, FALSE)]]

\* The add or update action, its prompts answered so that get_model_input
\* returns F, calls neither create nor update and leaves the tables alone.
NothingWritten(F) ==
  /\ F = NoFields
  /\ cli.op = "add" => \A r \in CliAddResults(F) : r.call = "" /\ r.store = store
  /\ cli.op = "update" => \A r \in CliUpdateResults(F) : r.call = "" /\ r.store = store

AtPrompts ==
  \/ cli.pc = "prompt" /\ cli.op = "add"
  \/ cli.pc = "loaded" /\ cli.op = "update"

\* C30: an exit command at any prompt of get_model_input, a value prompt or
\* the "Update <field>? (yes/no)" prompt of an update, makes it return the
\* empty mapping, and the add or update action then calls neither create
\* nor update: nothing is written from the fields entered before.
C30_ExitCancels ==
  AtPrompts => \A F \in AfterExitTable[cli.op][cli.kind] : NothingWritten(F)

\* The part that holds: an exit command at a value prompt.
C30_ValueExitCancels ==
  AtPrompts => \A F \in AfterValueExitTable[cli.op][cli.kind] : NothingWritten(F)

(* ---------------------------- C25 -------------------------------------- *)
\* C25: every stored record is the only one of its kind with its id.  A
\* create that returns has added one record under an id that belonged to no
\* stored record and has left the stored ones in place, and a create given
\* the id of a stored record is refused.  An update, whether or not id is
\* among its fields, leaves as many records as there were and every other
\* record under its id: it never puts a record on the id of another.  And
\* every step taken leaves the ids of a kind as they were, adds one id that
\* was not stored, removes one, or moves one record to an id that was not
\* stored.
C25_IdsUnique ==
  /\ [](\A k \in Kinds(schema) :
          /\ \A i \in DOMAIN store[k] : store[k][i]["id"] = i
          /\ \A F \in CreateInputs[schema][k] : \A r \in CreateResults(schema, store, k, F) :
               /\ r.outcome = "ok" =>
                    /\ r.result["id"] \notin DOMAIN store[k]
                    /\ DOMAIN r.store[k] = DOMAIN store[k] \cup {r.result["id"]}
                    /\ \A j \in DOMAIN store[k] : r.store[k][j] = store[k][j]
               /\ "id" \in DOMAIN F.vals /\ F.vals["id"] \in DOMAIN store[k] =>
                    r.outcome # "ok" /\ r.store = store
          /\ \A i \in Ids : \A F \in UpdateInputs(k, i) :
               \A r \in UpdateResults(schema, store, k, i, F) :
                 /\ Cardinality(DOMAIN r.store[k]) = Cardinality(DOMAIN store[k])
                 /\ \A j \in DOMAIN store[k] \ {i} :
                      j \in DOMAIN r.store[k] /\ r.store[k][j]["id"] = j)
  /\ [][\A k \in Kinds(schema) :
          LET old == DOMAIN store[k]
              new == DOMAIN store'[k]
          IN \/ new = old
             \/ \E i \in Ids \ old : new = old \cup {i}
             \/ \E i \in old : new = old \ {i}
             \/ \E i \in old : \E j \in Ids \ old : new = (old \ {i}) \cup {j}]_vars

\* Two records of a kind are stored, and an update of one with the id of
\* the other is refused.
C25_Witness ==
  \E k \in Kinds(schema) : \E i, j \in DOMAIN store[k] :
    /\ i # j
    /\ Payload(Single("id", j), {}) \in UpdateInputs(k, i)
    /\ UpdateResult(schema, store, k, i, Payload(Single("id", j), {})).outcome
         = "IntegrityError"

(* ---------------------------- C26 -------------------------------------- *)
\* The primary keys on a page.
IdsOn(r) == {r.result[1][n]["id"] : n \in 1..Len(r.result[1])}

\* The pages 1..n, the page of each call given by page_of, are pairwise
\* disjoint and together hold the records with the keys in all.
Partition(n, page_of(_), all) ==
  /\ \A p, q \in 1..n : p # q => IdsOn(page_of(p)) \cap IdsOn(page_of(q)) = {}
  /\ UNION {IdsOn(page_of(p)) : p \in 1..n} = all

\* The number of pages of total records cut into pages of per_page.
PageCount(total, per_page) == (total + per_page - 1) \div per_page

\* C26: with no write between the calls, the pages 1..ceil(total/per_page)
\* returned by get_all, or by query with fixed filters, for a per_page of 1
\* or more hold every matching record exactly once, whatever order the
\* engine scans the table in at each call.
C26_PagesPartition ==
  \A k \in Kinds(schema) : \A per_page \in Pages :
    LET n == PageCount(Cardinality(DOMAIN store[k]), per_page)
    IN \A scan \in [1..n -> Scans(DOMAIN store[k])] :
         /\ Partition(n,
              LAMBDA p : GetAllResult(schema, store, k, p, per_page, scan[p]),
              DOMAIN store[k])
         /\ Partition(n,
              LAMBDA p : QueryResult(schema, store, k, p, per_page, <<>>, scan[p]),
              DOMAIN store[k])

\* The same when the engine scans the table in one order at every call:
\* get_all, and query with each filter on one column.
C26_PartitionUnderOneScan ==
  \A k \in Kinds(schema) : \A per_page \in Pages : \A scan \in Scans(DOMAIN store[k]) :
    /\ Partition(PageCount(Cardinality(DOMAIN store[k]), per_page),
         LAMBDA p : GetAllResult(schema, store, k, p, per_page, scan),
         DOMAIN store[k])
    /\ \A f \in ColumnFilters(schema, k) :
         LET all == IdsOn(QueryResult(schema, store, k, 1, MaxRows, f, scan))
         IN Partition(PageCount(Cardinality(all), per_page),
              LAMBDA p : QueryResult(schema, store, k, p, per_page, f, scan), all)

(* ---------------------------- C27 -------------------------------------- *)
\* Every record stored in s, other than record i of kind k, is stored in t
\* with the same fields.
OthersKept(s, t, k, i) ==
  \A ck \in AllKinds : \A j \in DOMAIN s[ck] :
    (ck # k \/ j # i) => j \in DOMAIN t[ck] /\ t[ck][j] = s[ck][j]

\* The calls on one record, however they end, keep every other record.
CreateKeeps(k) ==
  \A F \in CreateInputs[schema][k] : \A r \in CreateResults(schema, store, k, F) :
    OthersKept(store, r.store, k, 0)

UpdateKeeps(k) ==
  \A i \in Ids : \A F \in UpdateInputs(k, i) :
    \A r \in UpdateResults(schema, store, k, i, F) : OthersKept(store, r.store, k, i)

DeleteKeeps(k) ==
  \A i \in Ids : \A r \in DeleteResults(schema, store, k, i) :
    OthersKept(store, r.store, k, i)

\* C27: create, update and delete on one record leave every other stored
\* record, of the same kind and of every other kind, with the fields it
\* had; a delete of an Account or Category in particular leaves the
\* account_id and category_id of the records that named it.
C27_OthersUnchanged ==
  \A k \in Kinds(schema) : CreateKeeps(k) /\ UpdateKeeps(k) /\ DeleteKeeps(k)

\* The part that holds: create and update keep every other record, and so
\* does the delete of a record that no stored record names.
C27_KeptUnlessReferenced ==
  \A k \in Kinds(schema) :
    /\ CreateKeeps(k) /\ UpdateKeeps(k)
    /\ \A i \in Ids : \A r \in DeleteResults(schema, store, k, i) :
         ~Referenced(schema, store, k, i) => OthersKept(store, r.store, k, i)
    /\ schema = "models" => DeleteKeeps(k)

(* ---------------------------- C28 -------------------------------------- *)
\* The list filters on column c whose elements are all literals with a
\* value: the lists of SingleFilters, the two-element lists that start
\* with an operator string among them.
ListsTable ==
  [sch \in Schemas |-> [k \in AllKinds |-> [c \in Columns(sch, k) \cup {"id"} |->
     {v \in SingleFilters(sch, k, c) :
        /\ "items" \in DOMAIN v
        /\ \A n \in 1..Len(v.items) : "null" \notin DOMAIN v.items[n]}]]]

ListsOfLiterals(sch, k, c) == ListsTable[sch][k][c]

\* The rows of table k whose column c equals one of the elements of the
\* list v; a string and a number are never equal.
MemberOf(k, c, v) ==
  {i \in With(k, c) :
     \E n \in 1..Len(v.items) :
       /\ ("n" \in DOMAIN v.items[n]) = IsNumber(c)
       /\ store[k][i][c] = ItemValue(v.items[n])}

\* C28 as stated: every list of literals is membership over its elements,
\* the two-element lists whose first element is one of the strings
\* < <= > >= == != included; the length and the content of the list never
\* change that.
C28_ListIsMembership ==
  \A k \in Kinds(schema) : \A scan \in Scans(DOMAIN store[k]) :
    \A c \in Columns(schema, k) \cup {"id"} :
      \A v \in ListsOfLiterals(schema, k, c) :
        Selected(k, Single(c, v), scan) = MemberOf(k, c, v)

\* C28, amended: a list of literals is membership over its elements unless
\* it has exactly two elements and the first is one of the strings
\* < <= > >= == !=; such a list is read as the comparison of the column
\* with its second element, so that name=['!=', 'a'] selects the records
\* named otherwise and none named '!='.
C28_MembershipUnlessPair ==
  \A k \in Kinds(schema) : \A scan \in Scans(DOMAIN store[k]) :
    \A c \in Columns(schema, k) \cup {"id"} :
      \A v \in ListsOfLiterals(schema, k, c) :
        Selected(k, Single(c, v), scan) =
          IF IsPair(v)
          THEN {i \in With(k, c) : Meets(store[k][i][c], v.items[1].s, ItemValue(v.items[2]))}
          ELSE MemberOf(k, c, v)

\* A table with a row named a, which the list ['==', 'a'] read as a
\* comparison and the list ['~', 'a'] read as membership both select,
\* while ['!=', 'a'] leaves it out although 'a' is one of its elements.
C28_Witness ==
  \E k \in Kinds(schema) : \E scan \in Scans(DOMAIN store[k]) :
    /\ "name" \in Columns(schema, k)
    /\ \E i \in With(k, "name") :
         /\ store[k][i]["name"] = "a"
         /\ i \in Selected(k, Single("name", List(<<Str("=="), Str("a")>>)), scan)
         /\ i \in Selected(k, Single("name", List(<<Str("~"), Str("a")>>)), scan)
         /\ i \in MemberOf(k, "name", List(<<Str("!="), Str("a")>>))
         /\ i \notin Selected(k, Single("name", List(<<Str("!="), Str("a")>>)), scan)

====
